---- MODULE Spec2Model ----
(***************************************************************************)
(* Model of the WebAssembly -> Wimpl lowering of                           *)
(* lib/wasm/src/wimpl/wimplify.rs.                                         *)
(*                                                                         *)
(* One behaviour of the model is the lowering of one function body: every  *)
(* step reads one instruction from the cursor, asks the type checker for   *)
(* its type and lowers (or skips) it.  The recursion of wimplify_instrs is *)
(* kept as an explicit stack of activations (calls).                       *)
(***************************************************************************)
EXTENDS Integers, Sequences, FiniteSets, TLC

VARIABLES
    ctx,              \* Context: func_ty of the function being lowered, its locals
    tc,               \* state.type_checker: stack of block frames
    nread,            \* number of instructions taken from state.instrs_iter
    instr,            \* the instruction read last (loop variable of wimplify_instrs)
    ty,               \* the InferredInstructionType returned for instr
    label_count,      \* state.label_count
    stack_var_count,  \* state.stack_var_count
    label_stack,      \* state.label_stack
    calls,            \* active invocations of wimplify_instrs, outermost first
    status,           \* "running", "ok" (Ok(Body)), "panic" (assert/expect failed)
    msg,              \* message of the failed assertion when status = "panic"
    body,             \* Body returned by wimplify_function_body when status = "ok"
    wasm_effects,     \* history: effects of the reachable input instructions, in stream order
    block_types,      \* history: the block type of the construct of each label created
    driver,           \* wimplify: the input module, the functions taken and collected so
                      \* far, the set function_ids and the Result it returns
    checked,          \* history: the instructions passed to check_next_instr, in call order
    taken,            \* history: the instructions taken from state.instrs_iter, each with
                      \* whether the type checker inferred it to be reachable
    limits            \* the bounds within which function bodies are explored

vars == <<ctx, tc, nread, instr, ty, label_count, stack_var_count, label_stack,
          calls, status, msg, body, wasm_effects, block_types, driver, checked, taken, limits>>

-----------------------------------------------------------------------------
(* Bounds of the model.                                                    *)

\* A specification explores the bodies of at most `instrs` instructions that nest
\* blocks at most `depth` deep (the function body included) and keep at most
\* `stack` operands in a block.
Limits(instrs, depth, stack) == [instrs |-> instrs, depth |-> depth, stack |-> stack]

MaxInstrsExpr == 4
MaxStackExpr == 3
MaxInstrsCtl == 5
MaxStackCtl == 2
MaxDepthCtl == 3
MaxInstrsDead == 8
MaxStackDead == 1
MaxDepthDead == 4
MaxInstrsOrder == 5
MaxStackOrder == 3
MaxDepthOrder == 3
MaxOperand == 4
MaxInstrsIf == 7
MaxStackIf == 1
MaxDepthIf == 3
MaxInstrsReturn == 8
MaxStackReturn == 1
MaxDepthReturn == 4
MaxInstrsModule == 3
MaxStackModule == 1
MaxDepthModule == 2
MaxFunctions == 2
MaxDepth == 4

-----------------------------------------------------------------------------
(* Sequences.                                                              *)

Last(s) == s[Len(s)]
Front(s) == SubSeq(s, 1, Len(s) - 1)
Take(s, n) == SubSeq(s, 1, n)
Drop(s, n) == SubSeq(s, n + 1, Len(s))
SetLast(s, x) == [s EXCEPT ![Len(s)] = x]

RECURSIVE Flatten(_)
Flatten(ss) == IF ss = <<>> THEN <<>> ELSE Head(ss) \o Flatten(Tail(ss))

-----------------------------------------------------------------------------
(* Wimpl data: variables, expressions, statements.                         *)

I32 == "I32"
I64 == "I64"

Stack(n) == <<"Stack", n>>
Param(n) == <<"Param", n>>
Local(n) == <<"Local", n>>
Global(n) == <<"Global", n>>
BlockResult(n) == <<"BlockResult", n>>
Return(n) == <<"Return", n>>

None == <<>>
Some(x) == <<x>>

VarRef(v) == [tag |-> "VarRef", var |-> v]
Const(t, n) == [tag |-> "Const", vty |-> t, val |-> n]
Unary(op, arg) == [tag |-> "Unary", op |-> op, arg |-> arg]
Binary(op, l, r) == [tag |-> "Binary", op |-> op, left |-> l, right |-> r]
Load(op, addr) == [tag |-> "Load", op |-> op, addr |-> addr]
MemorySize == [tag |-> "MemorySize"]
MemoryGrow(pages) == [tag |-> "MemoryGrow", pages |-> pages]
Call(f, args) == [tag |-> "Call", func |-> f, args |-> args]
CallIndirect(ft, idx, args) ==
    [tag |-> "CallIndirect", ftype |-> ft, table_idx |-> idx, args |-> args]

Assign(lhs, t, rhs) == [tag |-> "Assign", lhs |-> lhs, type_ |-> t, rhs |-> rhs]
Store(op, addr, value) == [tag |-> "Store", op |-> op, addr |-> addr, value |-> value]
ExprStmt(e) == [tag |-> "Expr", expr |-> e]
Br(target) == [tag |-> "Br", target |-> target]
If(c, if_body, else_body) ==
    [tag |-> "If", condition |-> c, if_body |-> if_body, else_body |-> else_body]
Switch(index, cases, default) ==
    [tag |-> "Switch", index |-> index, cases |-> cases, default |-> default]
Block(b, l) == [tag |-> "Block", body |-> b, end_label |-> l]
Loop(l, b) == [tag |-> "Loop", begin_label |-> l, body |-> b]
Unreachable == [tag |-> "Unreachable"]

Slot(e, t) == [expr |-> e, type_ |-> t]

\* Frame kinds are the names of the instructions that open them, in lower case.
ToLower(k) == CASE k = "Block" -> "block" [] k = "Loop" -> "loop" [] k = "If" -> "if"

IsStackRef(e) == e.tag = "VarRef" /\ e.var[1] = "Stack"
IsConst(e) == e.tag = "Const"

-----------------------------------------------------------------------------
(* The input: WebAssembly instructions, and the module around the function. *)

\* A u32 as its two 16-bit halves <<high, low>> (its value is high * 2^16 + low).
Half == 65536
U32(high, low) == <<high, low>>
Zero32 == U32(0, 0)

\* An instruction is the tuple <<k, op, n, bt, tbl, offset>>: i[1] = k names the
\* instruction, i[2] = op is its operator, i[3] = n its index, label or constant,
\* i[4] = bt its block type or value type, i[5] = tbl the table of br_table and
\* i[6] = memarg.offset.
Instr(k, op, n, bt, tbl) == <<k, op, n, bt, tbl, Zero32>>
Memarg(i, offset) == [i EXCEPT ![6] = offset]
NoInstr == Instr("None", "", 0, None, <<>>)

FunctionType(inputs, results) == [inputs |-> inputs, results |-> results]

\* context.module: the types of the module's functions, by function index (from 0).
ModuleFunctions ==
    << FunctionType(<<I32, I32>>, <<>>),
       FunctionType(<<I32>>, <<I32>>) >>
function(idx) == ModuleFunctions[idx + 1]

\* The function under lowering: its type and the types of its declared locals.
Function(type_, locals) == [func_ty |-> type_, locals |-> locals]

\* The functions explored: one parameter and one declared local, with and
\* without a result.
FuncInputs == <<I32>>
FuncLocals == <<I64>>
Functions == {Function(FunctionType(FuncInputs, r), FuncLocals) : r \in {<<>>, <<I32>>}}

\* The types of the parameters and declared locals, by local index (from 0).
LocalTypes == ctx.func_ty.inputs \o ctx.locals
GlobalType == I32

-----------------------------------------------------------------------------
(* Utility functions of wimplify_instrs.                                   *)

\* What a handler of one instruction returns: a failed assertion, or the new
\* expression stack, the statements pushed to stmts_result and the new counter.
Panic(m) == [panic |-> m, expr_stack |-> <<>>, stmts |-> <<>>, count |-> 0]
Done(es, stmts, cnt) == [panic |-> "", expr_stack |-> es, stmts |-> stmts, count |-> cnt]

\* A variant that hands out the same temporary again.
ReuseStackVar(count) == [var |-> Stack(count), count |-> count]

create_fresh_stack_var(count) == [var |-> Stack(count), count |-> count + 1]

\* A variant that leaves every variable reference alone, not only those to
\* Stack temporaries.
LeaveEveryVarRef(expr) == expr.tag = "VarRef" \/ IsConst(expr)

\* The slots materialize_all_exprs_as_stmts leaves alone.
NoNeedToMaterialize(expr) == IsStackRef(expr) \/ IsConst(expr)

\* A variant that replaces the slots by references to fresh temporaries but
\* pushes no Assign for them.
MaterializeWithoutAssign(count, expr_stack) ==
    Done([k \in 1..Len(expr_stack) |->
             IF NoNeedToMaterialize(expr_stack[k].expr) THEN expr_stack[k]
             ELSE Slot(VarRef(Stack(count + k - 1)), expr_stack[k].type_)],
         <<>>, count + Len(expr_stack))

RECURSIVE materialize_all_exprs_as_stmts(_, _)
materialize_all_exprs_as_stmts(count, expr_stack) ==
    IF expr_stack = <<>> THEN Done(<<>>, <<>>, count)
    ELSE LET slot == Head(expr_stack) IN
         IF NoNeedToMaterialize(slot.expr)
         THEN LET rest == materialize_all_exprs_as_stmts(count, Tail(expr_stack)) IN
              Done(<<slot>> \o rest.expr_stack, rest.stmts, rest.count)
         ELSE LET fresh == create_fresh_stack_var(count)
                  rest == materialize_all_exprs_as_stmts(fresh.count, Tail(expr_stack)) IN
              Done(<<Slot(VarRef(fresh.var), slot.type_)>> \o rest.expr_stack,
                   <<Assign(fresh.var, slot.type_, slot.expr)>> \o rest.stmts,
                   rest.count)

local_idx_to_var(local_idx) ==
    LET num_params == Len(ctx.func_ty.inputs) IN
    IF local_idx < num_params THEN Param(local_idx) ELSE Local(local_idx - num_params)

Frame(label, is_loop, result_var) ==
    [label |-> label, is_loop |-> is_loop, result_var |-> result_var]

create_block_label_and_var(lcount, lstack, expr_stack, blocktype, is_loop) ==
    LET label == lcount
        result_var == IF blocktype # None THEN Some(BlockResult(label)) ELSE None IN
    [ label |-> label,
      label_count |-> lcount + 1,
      expr_stack |-> IF blocktype # None
                     THEN Append(expr_stack, Slot(VarRef(BlockResult(label)), blocktype[1]))
                     ELSE expr_stack,
      label_stack |-> Append(lstack, Frame(label, is_loop, result_var)) ]

\* A variant that carries a value to every frame with a result variable,
\* loops included.
BranchVarOfAnyFrame(frame) == frame.result_var

\* The branch-carried variable of a resolved frame.
BranchVar(frame) ==
    IF ~frame.is_loop /\ frame.result_var # None THEN frame.result_var ELSE None

wasm_label_to_wimpl_label_and_block_var(lstack, wasm_label) ==
    IF wasm_label >= Len(lstack)
    THEN [panic |-> "invalid branch label, not in label stack", label |-> 0, block_var |-> None]
    ELSE LET frame == lstack[Len(lstack) - wasm_label] IN
         [panic |-> "", label |-> frame.label, block_var |-> BranchVar(frame)]

-----------------------------------------------------------------------------
(* Conversion of each instruction that neither opens nor closes a nested   *)
(* block.  es is the expression stack of the current invocation, count is  *)
(* state.stack_var_count, lstack is state.label_stack, t the instruction's *)
(* type as inferred by the type checker.                                   *)

wasm_Unreachable(es, count) ==
    LET m == materialize_all_exprs_as_stmts(count, es) IN
    Done(m.expr_stack, m.stmts \o <<Unreachable>>, m.count)

wasm_Nop(es, count) == Done(es, <<>>, count)

wasm_Return(es, count, lstack) ==
    IF lstack = <<>> THEN Panic("empty label stack, but expected function")
    ELSE LET first == Head(lstack) IN
    IF first.label # 0
    THEN Panic("first element on the label stack should point to function body label")
    ELSE IF first.is_loop THEN Panic("function body block should not have loop flag set")
    ELSE IF first.result_var # None
    THEN IF es = <<>> THEN Panic("return expects a return value")
         ELSE LET m == materialize_all_exprs_as_stmts(count, Front(es)) IN
              Done(m.expr_stack,
                   m.stmts \o <<Assign(first.result_var[1], Last(es).type_, Last(es).expr),
                                Br(first.label)>>,
                   m.count)
    ELSE LET m == materialize_all_exprs_as_stmts(count, es) IN
         Done(m.expr_stack, m.stmts \o <<Br(first.label)>>, m.count)

\* A variant that pops the carried value without assigning it.
BrDropsValue(es, count, lstack, label) ==
    LET target == wasm_label_to_wimpl_label_and_block_var(lstack, label) IN
    IF target.panic # "" THEN Panic(target.panic)
    ELSE IF target.block_var # None /\ es = <<>> THEN Panic("br to this label expects a value")
    ELSE LET m == materialize_all_exprs_as_stmts(
                      count, IF target.block_var # None THEN Front(es) ELSE es) IN
         Done(m.expr_stack, m.stmts \o <<Br(target.label)>>, m.count)

wasm_Br(es, count, lstack, label) ==
    LET target == wasm_label_to_wimpl_label_and_block_var(lstack, label) IN
    IF target.panic # "" THEN Panic(target.panic)
    ELSE IF target.block_var # None
    THEN IF es = <<>> THEN Panic("br to this label expects a value")
         ELSE LET m == materialize_all_exprs_as_stmts(count, Front(es)) IN
              Done(m.expr_stack,
                   m.stmts \o <<Assign(target.block_var[1], Last(es).type_, Last(es).expr),
                                Br(target.label)>>,
                   m.count)
    ELSE LET m == materialize_all_exprs_as_stmts(count, es) IN
         Done(m.expr_stack, m.stmts \o <<Br(target.label)>>, m.count)

\* A variant that pops the carried value as br does.
BrIfPopsValue(es, count, lstack, label) ==
    IF es = <<>> \/ Last(es).type_ # I32 THEN Panic("br_if expects a conditional on the stack")
    ELSE LET target == wasm_label_to_wimpl_label_and_block_var(lstack, label)
             m == materialize_all_exprs_as_stmts(count, Front(es)) IN
    IF target.panic # "" THEN Panic(target.panic)
    ELSE IF target.block_var # None /\ m.expr_stack # <<>>
    THEN Done(Front(m.expr_stack),
              m.stmts \o <<If(Last(es).expr,
                              <<Assign(target.block_var[1], Last(m.expr_stack).type_,
                                       Last(m.expr_stack).expr),
                                Br(target.label)>>,
                              None)>>,
              m.count)
    ELSE Done(m.expr_stack, m.stmts \o <<If(Last(es).expr, <<Br(target.label)>>, None)>>,
              m.count)

wasm_BrIf(es, count, lstack, label) ==
    IF es = <<>> THEN Panic("br_if expects a conditional on the stack")
    ELSE IF Last(es).type_ # I32 THEN Panic("assert_eq condition_ty I32")
    ELSE LET condition == Last(es).expr
             target == wasm_label_to_wimpl_label_and_block_var(lstack, label) IN
    IF target.panic # "" THEN Panic(target.panic)
    ELSE LET m == materialize_all_exprs_as_stmts(count, Front(es)) IN
    IF target.block_var # None
    THEN IF m.expr_stack = <<>> THEN Panic("br_if to this label expects a value")
         ELSE LET value == Last(m.expr_stack) IN
              Done(m.expr_stack,
                   m.stmts \o <<If(condition,
                                   <<Assign(target.block_var[1], value.type_, value.expr),
                                     Br(target.label)>>,
                                   None)>>,
                   m.count)
    ELSE Done(m.expr_stack, m.stmts \o <<If(condition, <<Br(target.label)>>, None)>>, m.count)

\* The closure br_with_maybe_assign of the br_table case.
br_with_maybe_assign(label, lstack, es) ==
    LET target == wasm_label_to_wimpl_label_and_block_var(lstack, label) IN
    IF target.panic # "" THEN [panic |-> target.panic, stmts |-> <<>>]
    ELSE IF target.block_var # None
    THEN IF es = <<>> THEN [panic |-> "this br_table expects a value", stmts |-> <<>>]
         ELSE [panic |-> "",
               stmts |-> <<Assign(target.block_var[1], Last(es).type_, Last(es).expr),
                           Br(target.label)>>]
    ELSE [panic |-> "", stmts |-> <<Br(target.label)>>]

wasm_BrTable(es, count, lstack, table, default) ==
    IF es = <<>> THEN Panic("br_table expects an index into the table on the stack")
    ELSE IF Last(es).type_ # I32 THEN Panic("assert_eq table_index_ty I32")
    ELSE LET table_index_expr == Last(es).expr
             m == materialize_all_exprs_as_stmts(count, Front(es))
             cases == [k \in 1..Len(table) |-> br_with_maybe_assign(table[k], lstack, m.expr_stack)]
             dflt == br_with_maybe_assign(default, lstack, m.expr_stack) IN
    IF \E k \in 1..Len(table) : cases[k].panic # ""
    THEN Panic(cases[CHOOSE k \in 1..Len(table) :
                        /\ cases[k].panic # ""
                        /\ \A j \in 1..(k - 1) : cases[j].panic = ""].panic)
    ELSE IF dflt.panic # "" THEN Panic(dflt.panic)
    ELSE Done(m.expr_stack,
              m.stmts \o <<Switch(table_index_expr,
                                  [k \in 1..Len(table) |-> cases[k].stmts],
                                  dflt.stmts)>>,
              m.count)

\* A variant that takes the arguments from the top of the stack downwards.
ArgsFromTop(es, n_args) == [k \in 1..n_args |-> es[Len(es) - k + 1].expr]

\* The exprs of the n_args topmost slots, in stack order.
Args(es, n_args) == [k \in 1..n_args |-> es[Len(es) - n_args + k].expr]

\* Result handling shared by call and call_indirect.
CallResult(es, count, t, call_expr) ==
    IF t.results = <<>>
    THEN LET m == materialize_all_exprs_as_stmts(count, es) IN
         Done(m.expr_stack, m.stmts \o <<ExprStmt(call_expr)>>, m.count)
    ELSE IF Len(t.results) = 1
    THEN Done(Append(es, Slot(call_expr, t.results[1])), <<>>, count)
    ELSE Panic("WebAssembly multi-value extension")

wasm_Call(es, count, t, func_index) ==
    LET n_args == Len(function(func_index).inputs) IN
    IF Len(es) < n_args THEN Panic("split_off: attempt to subtract with overflow")
    ELSE CallResult(Take(es, Len(es) - n_args), count, t,
                    Call(func_index, Args(es, n_args)))

wasm_CallIndirect(es, count, t, func_type, table_index) ==
    IF table_index # 0 THEN Panic("WebAssembly MVP must always have a single table")
    ELSE IF es = <<>> THEN Panic("call_indirect expects a table index on the stack")
    ELSE IF Last(es).type_ # I32 THEN Panic("assert_eq table_index_ty I32")
    ELSE LET table_index_expr == Last(es).expr
             rest == Front(es)
             n_args == Len(func_type.inputs) IN
    IF Len(rest) < n_args THEN Panic("split_off: attempt to subtract with overflow")
    ELSE CallResult(Take(rest, Len(rest) - n_args), count, t,
                    CallIndirect(func_type, table_index_expr, Args(rest, n_args)))

\* A variant that also discards unary and binary expressions silently.
DropIsSilentForOperators(expr) == expr.tag \in {"VarRef", "Const", "Unary", "Binary"}

\* The popped expressions for which drop emits no statement.
DropIsSilent(expr) == expr.tag = "VarRef" \/ expr.tag = "Const"

wasm_Drop(es, count) ==
    IF es = <<>> THEN Panic("drop expects a value on the stack")
    ELSE LET expr == Last(es).expr IN
    IF DropIsSilent(expr) THEN Done(Front(es), <<>>, count)
    ELSE LET m == materialize_all_exprs_as_stmts(count, Front(es)) IN
         Done(m.expr_stack, m.stmts \o <<ExprStmt(expr)>>, m.count)

wasm_Select(es, count, t) ==
    IF es = <<>> THEN Panic("select expects a conditional on the stack")
    ELSE IF Last(es).type_ # I32 THEN Panic("assert_eq condition_ty I32")
    ELSE LET condition == Last(es).expr
             type_ == t.results[1]
             m == materialize_all_exprs_as_stmts(count, Front(es)) IN
    IF m.expr_stack = <<>> THEN Panic("select expects else value on the stack")
    ELSE IF Len(m.expr_stack) = 1 THEN Panic("select expects if value on the stack")
    ELSE LET else_result_var == Last(m.expr_stack).expr
             if_result_var == Last(Front(m.expr_stack)).expr
             fresh == create_fresh_stack_var(m.count) IN
         Done(Append(Take(m.expr_stack, Len(m.expr_stack) - 2), Slot(VarRef(fresh.var), type_)),
              m.stmts \o <<If(condition,
                              <<Assign(fresh.var, type_, if_result_var)>>,
                              Some(<<Assign(fresh.var, type_, else_result_var)>>))>>,
              fresh.count)

wasm_LocalGet(es, count, t, local_idx) ==
    Done(Append(es, Slot(VarRef(local_idx_to_var(local_idx)), t.results[1])), <<>>, count)

wasm_LocalSet(es, count, t, local_idx) ==
    IF es = <<>> THEN Panic("local.set expects a value on the stack")
    ELSE IF Last(es).type_ # t.inputs[1] THEN Panic("assert_eq type_ ty.inputs()[0]")
    ELSE LET m == materialize_all_exprs_as_stmts(count, Front(es)) IN
         Done(m.expr_stack,
              m.stmts \o <<Assign(local_idx_to_var(local_idx), Last(es).type_, Last(es).expr)>>,
              m.count)

\* A variant that leaves the value itself on the stack, not a reference to
\* the local it was assigned to.
TeeKeepsValue(es, count, t, local_idx) ==
    IF es = <<>> THEN Panic("local.tee expects a value on the stack")
    ELSE IF Last(es).type_ # t.inputs[1] THEN Panic("assert_eq type_ ty.inputs()[0]")
    ELSE LET m == materialize_all_exprs_as_stmts(count, Front(es)) IN
         Done(Append(m.expr_stack, Last(es)),
              m.stmts \o <<Assign(local_idx_to_var(local_idx), Last(es).type_, Last(es).expr)>>,
              m.count)

wasm_LocalTee(es, count, t, local_idx) ==
    IF es = <<>> THEN Panic("local.tee expects a value on the stack")
    ELSE IF Last(es).type_ # t.inputs[1] THEN Panic("assert_eq type_ ty.inputs()[0]")
    ELSE LET m == materialize_all_exprs_as_stmts(count, Front(es))
             local_var == local_idx_to_var(local_idx) IN
         Done(Append(m.expr_stack, Slot(VarRef(local_var), Last(es).type_)),
              m.stmts \o <<Assign(local_var, Last(es).type_, Last(es).expr)>>,
              m.count)

wasm_GlobalGet(es, count, t, global_idx) ==
    Done(Append(es, Slot(VarRef(Global(global_idx)), t.results[1])), <<>>, count)

wasm_GlobalSet(es, count, t, global_idx) ==
    IF es = <<>> THEN Panic("local.set expects a value on the stack")
    ELSE IF Last(es).type_ # t.inputs[1] THEN Panic("assert_eq type_ ty.inputs()[0]")
    ELSE LET m == materialize_all_exprs_as_stmts(count, Front(es)) IN
         Done(m.expr_stack,
              m.stmts \o <<Assign(Global(global_idx), Last(es).type_, Last(es).expr)>>,
              m.count)

\* memarg.offset.try_into(): u32 to i32, which fails above i32::MAX.
try_into_i32(u) ==
    IF u[1] < Half \div 2 THEN [ok |-> TRUE, val |-> u[1] * Half + u[2]]
    ELSE [ok |-> FALSE, val |-> 0]

\* The address of a load or store with the memarg's offset added.
AddOffset(addr, offset) ==
    IF offset # Zero32
    THEN Binary("I32Add", addr, Const(I32, try_into_i32(offset).val))
    ELSE addr

wasm_Load(es, count, t, loadop, offset) ==
    IF es = <<>> THEN Panic("load expects an address on the stack")
    ELSE IF Last(es).type_ # I32 THEN Panic("assert_eq addr_ty I32")
    ELSE IF offset # Zero32 /\ ~try_into_i32(offset).ok THEN Panic("u32 to i32")
    ELSE Done(Append(Front(es), Slot(Load(loadop, AddOffset(Last(es).expr, offset)),
                                     t.results[1])),
              <<>>, count)

wasm_Store(es, count, t, op, offset) ==
    IF es = <<>> THEN Panic("store expects a value to store on the stack")
    ELSE IF Last(es).type_ # t.inputs[2] THEN Panic("assert_eq value_ty ty.inputs()[1]")
    ELSE IF Len(es) = 1 THEN Panic("store expects an address on the stack")
    ELSE LET value == Last(es).expr
             addr == Last(Front(es)) IN
    IF addr.type_ # I32 THEN Panic("assert_eq addr_ty I32")
    ELSE IF offset # Zero32 /\ ~try_into_i32(offset).ok THEN Panic("u32 to i32")
    ELSE LET m == materialize_all_exprs_as_stmts(count, Take(es, Len(es) - 2)) IN
         Done(m.expr_stack,
              m.stmts \o <<Store(op, AddOffset(addr.expr, offset), value)>>,
              m.count)

wasm_MemorySize(es, count, t, memory_idx) ==
    IF memory_idx # 0 THEN Panic("Wasm MVP only has a single memory")
    ELSE Done(Append(es, Slot(MemorySize, t.results[1])), <<>>, count)

wasm_MemoryGrow(es, count, t, memory_idx) ==
    IF memory_idx # 0 THEN Panic("Wasm MVP only has a single memory")
    ELSE IF es = <<>> THEN Panic("memory.grow expects a value on the stack")
    ELSE IF Last(es).type_ # I32 THEN Panic("assert_eq pages_ty I32")
    ELSE Done(Append(Front(es), Slot(MemoryGrow(Last(es).expr), t.results[1])), <<>>, count)

wasm_Const(es, count, t, vty, val) ==
    Done(Append(es, Slot(Const(vty, val), t.results[1])), <<>>, count)

wasm_Unary(es, count, t, op) ==
    IF es = <<>> THEN Panic("unary operation expects argument on the stack")
    ELSE IF Last(es).type_ # t.inputs[1] THEN Panic("assert_eq type_ ty.inputs()[0]")
    ELSE Done(Append(Front(es), Slot(Unary(op, Last(es).expr), t.results[1])), <<>>, count)

wasm_Binary(es, count, t, op) ==
    IF es = <<>> THEN Panic("binary operation expects right argument on the stack")
    ELSE IF Last(es).type_ # t.inputs[2] THEN Panic("assert_eq type_ ty.inputs()[1]")
    ELSE IF Len(es) = 1 THEN Panic("binary operation expects left argument on the stack")
    ELSE LET right == Last(es)
             left == Last(Front(es)) IN
    IF left.type_ # t.inputs[1] THEN Panic("assert_eq type_ ty.inputs()[0]")
    ELSE Done(Append(Take(es, Len(es) - 2),
                     Slot(Binary(op, left.expr, right.expr), t.results[1])),
              <<>>, count)

\* The match on instr, for the instructions handled within one invocation.
Convert(i, t, es, count, lstack) ==
    CASE i[1] = "Unreachable" -> wasm_Unreachable(es, count)
      [] i[1] = "Nop" -> wasm_Nop(es, count)
      [] i[1] = "Return" -> wasm_Return(es, count, lstack)
      [] i[1] = "Br" -> wasm_Br(es, count, lstack, i[3])
      [] i[1] = "BrIf" -> wasm_BrIf(es, count, lstack, i[3])
      [] i[1] = "BrTable" -> wasm_BrTable(es, count, lstack, i[5], i[3])
      [] i[1] = "Call" -> wasm_Call(es, count, t, i[3])
      [] i[1] = "CallIndirect" -> wasm_CallIndirect(es, count, t, function(i[3]), 0)
      [] i[1] = "Drop" -> wasm_Drop(es, count)
      [] i[1] = "Select" -> wasm_Select(es, count, t)
      [] i[1] = "LocalGet" -> wasm_LocalGet(es, count, t, i[3])
      [] i[1] = "LocalSet" -> wasm_LocalSet(es, count, t, i[3])
      [] i[1] = "LocalTee" -> wasm_LocalTee(es, count, t, i[3])
      [] i[1] = "GlobalGet" -> wasm_GlobalGet(es, count, t, i[3])
      [] i[1] = "GlobalSet" -> wasm_GlobalSet(es, count, t, i[3])
      [] i[1] = "Load" -> wasm_Load(es, count, t, i[2], i[6])
      [] i[1] = "Store" -> wasm_Store(es, count, t, i[2], i[6])
      [] i[1] = "MemorySize" -> wasm_MemorySize(es, count, t, 0)
      [] i[1] = "MemoryGrow" -> wasm_MemoryGrow(es, count, t, 0)
      [] i[1] = "Const" -> wasm_Const(es, count, t, i[4][1], i[3])
      [] i[1] = "Unary" -> wasm_Unary(es, count, t, i[2])
      [] i[1] = "Binary" -> wasm_Binary(es, count, t, i[2])

-----------------------------------------------------------------------------
(* The type checker (TypeChecker::check_next_instr).  It keeps one frame   *)
(* per open block: its kind, its result type, the types on the operand     *)
(* stack inside it and whether the code at the cursor follows a            *)
(* stack-polymorphic terminator of the block (unr).                        *)

TcFrame(kind, res, vals, unr) == [kind |-> kind, res |-> res, vals |-> vals, unr |-> unr]

Reachable(inputs, results, tcs) ==
    [err |-> FALSE, reach |-> TRUE, inputs |-> inputs, results |-> results, tc |-> tcs]
InferredUnreachable(tcs) ==
    [err |-> FALSE, reach |-> FALSE, inputs |-> <<>>, results |-> <<>>, tc |-> tcs]
TypeError == [err |-> TRUE, reach |-> FALSE, inputs |-> <<>>, results |-> <<>>, tc |-> <<>>]

EndsWith(vals, suffix) ==
    /\ Len(vals) >= Len(suffix)
    /\ Drop(vals, Len(vals) - Len(suffix)) = suffix

\* The types a branch to the frame at the given depth carries.
LabelTypes(tcs, depth) ==
    LET target == tcs[Len(tcs) - depth] IN
    IF target.kind = "loop" THEN <<>> ELSE target.res

IsTerminator(i) == i[1] \in {"Unreachable", "Return", "Br", "BrTable"}
OpensBlock(i) == i[1] \in {"Block", "Loop", "If"}
BranchDepths(i) ==
    CASE i[1] \in {"Br", "BrIf"} -> {i[3]}
      [] i[1] = "BrTable" -> {i[3]} \cup {i[5][k] : k \in 1..Len(i[5])}
      [] OTHER -> {}

\* The signature of an instruction that neither opens nor closes a block.
Signature(tcs, i) ==
    LET vals == Last(tcs).vals
        n == Len(Last(tcs).vals)
        sig(ins, outs) == [ok |-> TRUE, inputs |-> ins, results |-> outs]
        bad == [ok |-> FALSE, inputs |-> <<>>, results |-> <<>>] IN
    CASE i[1] \in {"Unreachable", "Nop"} -> sig(<<>>, <<>>)
      [] i[1] = "Return" -> sig(ctx.func_ty.results, <<>>)
      [] i[1] = "Br" -> sig(LabelTypes(tcs, i[3]), <<>>)
      [] i[1] = "BrIf" -> sig(LabelTypes(tcs, i[3]) \o <<I32>>, LabelTypes(tcs, i[3]))
      [] i[1] = "BrTable" ->
            IF \A d \in BranchDepths(i) : LabelTypes(tcs, d) = LabelTypes(tcs, i[3])
            THEN sig(LabelTypes(tcs, i[3]) \o <<I32>>, <<>>) ELSE bad
      [] i[1] = "Call" -> sig(function(i[3]).inputs, function(i[3]).results)
      [] i[1] = "CallIndirect" -> sig(function(i[3]).inputs \o <<I32>>, function(i[3]).results)
      [] i[1] = "Drop" -> IF n >= 1 THEN sig(<<vals[n]>>, <<>>) ELSE bad
      [] i[1] = "Select" ->
            IF n >= 3 /\ vals[n - 1] = vals[n - 2]
            THEN sig(<<vals[n - 1], vals[n - 1], I32>>, <<vals[n - 1]>>) ELSE bad
      [] i[1] = "LocalGet" -> sig(<<>>, <<LocalTypes[i[3] + 1]>>)
      [] i[1] = "LocalSet" -> sig(<<LocalTypes[i[3] + 1]>>, <<>>)
      [] i[1] = "LocalTee" -> sig(<<LocalTypes[i[3] + 1]>>, <<LocalTypes[i[3] + 1]>>)
      [] i[1] = "GlobalGet" -> sig(<<>>, <<GlobalType>>)
      [] i[1] = "GlobalSet" -> sig(<<GlobalType>>, <<>>)
      [] i[1] = "Load" -> sig(<<I32>>, <<I32>>)
      [] i[1] = "Store" -> sig(<<I32, I32>>, <<>>)
      [] i[1] = "MemorySize" -> sig(<<>>, <<I32>>)
      [] i[1] = "MemoryGrow" -> sig(<<I32>>, <<I32>>)
      [] i[1] = "Const" -> sig(<<>>, i[4])
      [] i[1] = "Unary" -> sig(<<I32>>, <<I32>>)
      [] i[1] = "Binary" -> sig(<<I32, I32>>, <<I32>>)

\* The frames after the top frame was closed with the given result.
CloseFrame(tcs) ==
    LET top == Last(tcs)
        rest == Front(tcs) IN
    IF rest = <<>> \/ Last(rest).unr THEN rest
    ELSE SetLast(rest, [Last(rest) EXCEPT !.vals = @ \o top.res])

check_next_instr(tcs, i) ==
    LET top == Last(tcs) IN
    IF \E d \in BranchDepths(i) : d >= Len(tcs) THEN TypeError
    ELSE IF i[1] = "Else" THEN
        IF top.kind # "if" \/ (~top.unr /\ top.vals # top.res) THEN TypeError
        ELSE LET next == SetLast(tcs, TcFrame("else", top.res, <<>>, tcs[Len(tcs) - 1].unr)) IN
             IF top.unr THEN InferredUnreachable(next) ELSE Reachable(top.res, <<>>, next)
    ELSE IF i[1] = "End" THEN
        IF \/ (top.kind = "if" /\ top.res # <<>>)
           \/ (~top.unr /\ top.vals # top.res) THEN TypeError
        ELSE IF top.unr THEN InferredUnreachable(CloseFrame(tcs))
        ELSE Reachable(top.res, <<>>, CloseFrame(tcs))
    ELSE IF top.unr THEN
        IF OpensBlock(i)
        THEN InferredUnreachable(Append(tcs, TcFrame(ToLower(i[1]), i[4], <<>>, TRUE)))
        ELSE InferredUnreachable(tcs)
    ELSE IF i[1] \in {"Block", "Loop"} THEN
        Reachable(<<>>, i[4], Append(tcs, TcFrame(ToLower(i[1]), i[4], <<>>, FALSE)))
    ELSE IF i[1] = "If" THEN
        IF ~EndsWith(top.vals, <<I32>>) THEN TypeError
        ELSE Reachable(<<I32>>, i[4],
                       Append(SetLast(tcs, [top EXCEPT !.vals = Front(@)]),
                              TcFrame("if", i[4], <<>>, FALSE)))
    ELSE LET s == Signature(tcs, i) IN
        IF ~s.ok \/ ~EndsWith(top.vals, s.inputs) THEN TypeError
        ELSE Reachable(s.inputs, s.results,
                       SetLast(tcs,
                               IF IsTerminator(i) THEN [top EXCEPT !.vals = <<>>, !.unr = TRUE]
                               ELSE [top EXCEPT !.vals =
                                        Take(@, Len(@) - Len(s.inputs)) \o s.results]))

-----------------------------------------------------------------------------
(* The recursion of wimplify_instrs.  An activation holds the locals of    *)
(* one invocation (expr_stack, stmts_result) and what its caller keeps for *)
(* the time after it returns: which case called it (kind), the label the   *)
(* caller created and, for an if, the condition and the finished then-arm. *)

Activation(kind, stmts, label, condition, if_body) ==
    [kind |-> kind, expr_stack |-> <<>>, stmts_result |-> stmts, label |-> label,
     condition |-> condition, if_body |-> if_body]

\* The lowerer's part of the state, as one record.
Lowerer(lcount, scount, lstack, cs, st, m, b) ==
    [label_count |-> lcount, stack_var_count |-> scount, label_stack |-> lstack,
     calls |-> cs, status |-> st, msg |-> m, body |-> b]

Current ==
    Lowerer(label_count, stack_var_count, label_stack, calls, status, msg, body)

Panicked(m) == [Current EXCEPT !.status = "panic", !.msg = m]

\* The current invocation after it pushed stmts and replaced its expression stack.
Push(cs, es, stmts) ==
    SetLast(cs, [Last(cs) EXCEPT !.expr_stack = es, !.stmts_result = @ \o stmts])

\* The current invocation returns Ok(was_else) to its caller, which pushes the
\* statement of the finished construct (or starts the else-arm, or fails an assert).
ReturnOk(lcount, scount, lstack, cs, was_else) ==
    LET me == Last(cs)
        done(stmt) == Lowerer(lcount, scount, lstack,
                              Push(Front(cs), Last(Front(cs)).expr_stack, <<stmt>>),
                              "running", "", <<>>) IN
    CASE me.kind = "func" ->
            IF was_else THEN Panicked("function should not end with else")
            ELSE Lowerer(lcount, scount, lstack, <<>>, "ok", "", me.stmts_result)
      [] me.kind = "block" ->
            IF was_else THEN Panicked("block should be terminated by end, not else")
            ELSE done(Block(me.stmts_result, me.label))
      [] me.kind = "loop" ->
            IF was_else THEN Panicked("loop should be terminated by end, not else")
            ELSE done(Loop(me.label, me.stmts_result))
      [] me.kind = "if" ->
            IF was_else
            THEN Lowerer(lcount, scount, lstack,
                         SetLast(cs, Activation("else", <<>>, me.label, me.condition,
                                                me.stmts_result)),
                         "running", "", <<>>)
            ELSE done(Block(<<If(me.condition[1], me.stmts_result, None)>>, me.label))
      [] me.kind = "else" ->
            IF was_else THEN Panicked("else block should be terminated by end not else")
            ELSE done(Block(<<If(me.condition[1], me.if_body, Some(me.stmts_result))>>,
                            me.label))

\* A variant in which an unreachable end returns without popping the label stack.
UnreachableEndKeepsLabel(i) ==
    CASE i[1] = "End" -> ReturnOk(label_count, stack_var_count, label_stack, calls, FALSE)
      [] i[1] = "Else" -> ReturnOk(label_count, stack_var_count, label_stack, calls, TRUE)
      [] OTHER -> Current

\* InferredInstructionType::Unreachable: end and else return, all else is skipped.
inferred_Unreachable(i) ==
    CASE i[1] = "End" ->
            ReturnOk(label_count, stack_var_count,
                     IF label_stack = <<>> THEN <<>> ELSE Front(label_stack), calls, FALSE)
      [] i[1] = "Else" -> ReturnOk(label_count, stack_var_count, label_stack, calls, TRUE)
      [] OTHER -> Current

wasm_Block(i, is_loop) ==
    LET es == Last(calls).expr_stack
        m == materialize_all_exprs_as_stmts(stack_var_count, es)
        c == create_block_label_and_var(label_count, label_stack, m.expr_stack, i[4], is_loop) IN
    Lowerer(c.label_count, m.count, c.label_stack,
            Append(Push(calls, c.expr_stack, m.stmts),
                   Activation(IF is_loop THEN "loop" ELSE "block", <<>>, c.label, None, <<>>)),
            "running", "", <<>>)

wasm_If(i) ==
    LET es == Last(calls).expr_stack IN
    IF es = <<>> THEN Panicked("if expects a condition which was not found on the stack")
    ELSE IF Last(es).type_ # I32 THEN Panicked("assert_eq condition_ty I32")
    ELSE LET m == materialize_all_exprs_as_stmts(stack_var_count, Front(es))
             c == create_block_label_and_var(label_count, label_stack, m.expr_stack,
                                             i[4], FALSE) IN
         Lowerer(c.label_count, m.count, c.label_stack,
                 Append(Push(calls, c.expr_stack, m.stmts),
                        Activation("if", <<>>, c.label, Some(Last(es).expr), <<>>)),
                 "running", "", <<>>)

\* The tail shared by else and end: assign the result, check the stack is empty.
AssignResult(result_var, es, expect) ==
    IF result_var # None
    THEN IF es = <<>> THEN Panic(expect)
         ELSE IF Front(es) # <<>> THEN Panic("should not contain superfluous expressions")
         ELSE Done(<<>>, <<Assign(result_var[1], Last(es).type_, Last(es).expr)>>, 0)
    ELSE IF es # <<>> THEN Panic("should not contain superfluous expressions")
         ELSE Done(<<>>, <<>>, 0)

wasm_Else ==
    IF label_stack = <<>> THEN Panicked("label stack should include if label")
    ELSE IF Last(label_stack).is_loop
    THEN Panicked("if block result should never have loop flag set")
    ELSE LET a == AssignResult(Last(label_stack).result_var, Last(calls).expr_stack,
                                "else expects if result value on the stack") IN
         IF a.panic # "" THEN Panicked(a.panic)
         ELSE ReturnOk(label_count, stack_var_count, label_stack,
                       Push(calls, a.expr_stack, a.stmts), TRUE)

wasm_End ==
    IF label_stack = <<>>
    THEN Panicked("end of a block expects the matching label to be in the label stack")
    ELSE LET a == AssignResult(Last(label_stack).result_var, Last(calls).expr_stack,
                                "end expects if/block/loop result value on the stack") IN
         IF a.panic # "" THEN Panicked(a.panic)
         ELSE ReturnOk(label_count, stack_var_count, Front(label_stack),
                       Push(calls, a.expr_stack, a.stmts), FALSE)

\* The state after an instruction was converted within the current invocation.
Converted(c) ==
    IF c.panic # "" THEN Panicked(c.panic)
    ELSE Lowerer(label_count, c.count, label_stack,
                 Push(calls, c.expr_stack, c.stmts), "running", "", <<>>)

\* One iteration of the loop of wimplify_instrs on a Reachable instruction.
inferred_Reachable(i, t) ==
    CASE i[1] = "Block" -> wasm_Block(i, FALSE)
      [] i[1] = "Loop" -> wasm_Block(i, TRUE)
      [] i[1] = "If" -> wasm_If(i)
      [] i[1] = "Else" -> wasm_Else
      [] i[1] = "End" -> wasm_End
      [] OTHER -> Converted(Convert(i, t, Last(calls).expr_stack, stack_var_count, label_stack))

-----------------------------------------------------------------------------
(* The instructions the function body is drawn from.                       *)

BlockTypes == {None, Some(I32)}
ConstVals == {1}
LocalIdxs == {0, 1}
FuncIdxs == {0, 1}
Offsets == {Zero32, U32(0, 4), U32(Half \div 2, 0)}
Depths == 0..(MaxDepth - 1)

Plain(k) == Instr(k, "", 0, None, <<>>)
Indexed(k, n) == Instr(k, "", n, None, <<>>)

\* The effects of one instruction on locals, globals, memory and callees.
InstrEffects(i) ==
    LET local == local_idx_to_var(i[3]) IN
    CASE i[1] = "LocalGet" -> << <<"read", local[1], local[2]>> >>
      [] i[1] = "LocalSet" -> << <<"write", local[1], local[2]>> >>
      [] i[1] = "LocalTee" -> << <<"write", local[1], local[2]>>, <<"read", local[1], local[2]>> >>
      [] i[1] = "GlobalGet" -> << <<"read", "Global", i[3]>> >>
      [] i[1] = "GlobalSet" -> << <<"write", "Global", i[3]>> >>
      [] i[1] = "Call" -> << <<"call", "func", i[3]>> >>
      [] i[1] = "CallIndirect" -> << <<"call_indirect", "type", Len(function(i[3]).inputs)>> >>
      [] i[1] = "Load" -> << <<"load", "memory", 0>> >>
      [] i[1] = "Store" -> << <<"store", "memory", 0>> >>
      [] i[1] = "MemorySize" -> << <<"memory.size", "memory", 0>> >>
      [] i[1] = "MemoryGrow" -> << <<"memory.grow", "memory", 0>> >>
      [] OTHER -> <<>>

-----------------------------------------------------------------------------
(* wimplify_function_body: the state in which wimplify_instrs is entered.  *)

default_locals ==
    [k \in 1..Len(ctx.locals) |-> Assign(Local(k - 1), ctx.locals[k], Const(ctx.locals[k], 0))]

\* A variant without a return variable.
NoReturnVar(results) == None

return_var(results) == IF results = <<>> THEN None ELSE Some(Return(0))

\* A function of the input module: its name, if it has one, and its type and locals.
ModuleFunction(name, func) == [name |-> name, func |-> func]

\* FunctionId::from_idx: the name of the function, or else its index.
from_idx(idx, module) ==
    IF module[idx + 1].name = None THEN <<"Idx", idx>> ELSE <<"Name", module[idx + 1].name[1]>>

\* The closure of wimplify has taken the first function of module and is
\* about to lower its body.
Taken(module) ==
    [module |-> module, next |-> 1, function_ids |-> {from_idx(0, module)},
     functions |-> <<>>, result |-> "running", err |-> ""]

Begin(lim, modules) ==
    /\ limits = lim
    /\ driver \in {Taken(m) : m \in modules}
    /\ ctx = driver.module[1].func
    /\ tc = <<TcFrame("func", ctx.func_ty.results, <<>>, FALSE)>>
    /\ nread = 0
    /\ instr = NoInstr
    /\ ty = [reach |-> TRUE, inputs |-> <<>>, results |-> <<>>]
    /\ label_count = 1
    /\ stack_var_count = 0
    /\ label_stack = <<Frame(0, FALSE, return_var(ctx.func_ty.results))>>
    /\ calls = <<Activation("func", default_locals, 0, None, <<>>)>>
    /\ status = "running"
    /\ msg = ""
    /\ body = <<>>
    /\ wasm_effects = <<>>
    /\ block_types = <<>>
    /\ checked = <<>>
    /\ taken = <<>>

\* The lowering of the body of one function out of functions.
Start(lim, functions) == Begin(lim, {<<ModuleFunction(None, f)>> : f \in functions})

\* The lowerer's part of the next state.
Lowered(n) ==
    /\ label_count' = n.label_count
    /\ stack_var_count' = n.stack_var_count
    /\ label_stack' = n.label_stack
    /\ calls' = n.calls
    /\ status' = n.status
    /\ msg' = n.msg
    /\ body' = n.body

\* A variant that skips the instructions of unreachable code without passing
\* them to the type checker.
CheckedUnlessSkipped(i, r, reach) ==
    /\ ~r.err
    /\ r.reach = reach
    /\ Len(r.tc) <= limits.depth
    /\ r.tc # <<>> => Len(Last(r.tc).vals) <= limits.stack
    /\ tc' = r.tc
    /\ checked' = IF reach THEN Append(checked, i) ELSE checked
    /\ instr' = i
    /\ ty' = [reach |-> r.reach, inputs |-> r.inputs, results |-> r.results]
    /\ wasm_effects' = IF reach THEN wasm_effects \o InstrEffects(i) ELSE wasm_effects
    /\ Lowered(IF reach THEN inferred_Reachable(i, r) ELSE inferred_Unreachable(i))
    /\ block_types' = IF label_count' > label_count THEN Append(block_types, i[4])
                      ELSE block_types

\* The type checker returned r for instruction i.
Checked(i, r, reach) ==
    /\ ~r.err
    /\ r.reach = reach
    /\ Len(r.tc) <= limits.depth
    /\ r.tc # <<>> => Len(Last(r.tc).vals) <= limits.stack
    /\ tc' = r.tc
    /\ checked' = Append(checked, i)
    /\ instr' = i
    /\ ty' = [reach |-> r.reach, inputs |-> r.inputs, results |-> r.results]
    /\ wasm_effects' = IF reach THEN wasm_effects \o InstrEffects(i) ELSE wasm_effects
    /\ Lowered(IF reach THEN inferred_Reachable(i, r) ELSE inferred_Unreachable(i))
    /\ block_types' = IF label_count' > label_count THEN Append(block_types, i[4])
                      ELSE block_types

\* The loop of wimplify_instrs takes instruction i from the cursor.
Step(i, reach) ==
    /\ status = "running"
    /\ nread < limits.instrs
    /\ nread' = nread + 1
    /\ taken' = Append(taken, <<i, reach>>)
    /\ Checked(i, check_next_instr(tc, i), reach)
    /\ UNCHANGED <<ctx, limits, driver>>

DoUnreachable == status = "running" /\ Step(Plain("Unreachable"), TRUE)
DoNop == status = "running" /\ Step(Plain("Nop"), TRUE)
DoBlock == status = "running" /\ \E bt \in BlockTypes : Step(Instr("Block", "", 0, bt, <<>>), TRUE)
DoLoop == status = "running" /\ \E bt \in BlockTypes : Step(Instr("Loop", "", 0, bt, <<>>), TRUE)
DoIf == status = "running" /\ \E bt \in BlockTypes : Step(Instr("If", "", 0, bt, <<>>), TRUE)
DoElse == status = "running" /\ Step(Plain("Else"), TRUE)
DoEnd == status = "running" /\ Step(Plain("End"), TRUE)
DoReturn == status = "running" /\ Step(Plain("Return"), TRUE)
DoBr == status = "running" /\ \E d \in Depths : Step(Indexed("Br", d), TRUE)
DoBrIf == status = "running" /\ \E d \in Depths : Step(Indexed("BrIf", d), TRUE)
DoBrTable == status = "running" /\ \E d \in Depths, e \in Depths : Step(Instr("BrTable", "", d, None, <<e>>), TRUE)
DoCall == status = "running" /\ \E f \in FuncIdxs : Step(Indexed("Call", f), TRUE)
DoCallIndirect == status = "running" /\ \E f \in FuncIdxs : Step(Indexed("CallIndirect", f), TRUE)
DoDrop == status = "running" /\ Step(Plain("Drop"), TRUE)
DoSelect == status = "running" /\ Step(Plain("Select"), TRUE)
DoLocalGet == status = "running" /\ \E l \in LocalIdxs : Step(Indexed("LocalGet", l), TRUE)
DoLocalSet == status = "running" /\ \E l \in LocalIdxs : Step(Indexed("LocalSet", l), TRUE)
DoLocalTee == status = "running" /\ \E l \in LocalIdxs : Step(Indexed("LocalTee", l), TRUE)
DoGlobalGet == status = "running" /\ Step(Indexed("GlobalGet", 0), TRUE)
DoGlobalSet == status = "running" /\ Step(Indexed("GlobalSet", 0), TRUE)
DoLoad == status = "running" /\ \E o \in Offsets : Step(Memarg(Instr("Load", "I32Load", 0, None, <<>>), o), TRUE)
DoStore == status = "running" /\ \E o \in Offsets : Step(Memarg(Instr("Store", "I32Store", 0, None, <<>>), o), TRUE)
DoMemorySize == status = "running" /\ Step(Plain("MemorySize"), TRUE)
DoMemoryGrow == status = "running" /\ Step(Plain("MemoryGrow"), TRUE)
DoConst == status = "running" /\ \E v \in ConstVals : Step(Instr("Const", "", v, Some(I32), <<>>), TRUE)
DoUnary == status = "running" /\ Step(Instr("Unary", "I32Eqz", 0, None, <<>>), TRUE)
DoBinary == status = "running" /\ Step(Instr("Binary", "I32Add", 0, None, <<>>), TRUE)

\* Instructions the type checker infers to be unreachable.
SkippedInstrs ==
    {Plain("Nop"), Instr("Block", "", 0, None, <<>>), Instr("If", "", 0, None, <<>>)}
SkipUnreachable == status = "running" /\ \E i \in SkippedInstrs : Step(i, FALSE)
UnreachableEnd == status = "running" /\ Step(Plain("End"), FALSE)
UnreachableElse == status = "running" /\ Step(Plain("Else"), FALSE)

-----------------------------------------------------------------------------
(* wimplify: the functions of the module, one after the other.             *)

\* A function of the output module.
WimplFunction(type_, b, name) == [type_ |-> type_, body |-> b, name |-> name]

\* A variant that returns the functions collected so far as the module.
ReturnsCollected(d, e) == [d EXCEPT !.result = "Ok"]

\* The closure returned Err(e): collect stops, the functions collected so far
\* are dropped and wimplify returns Err(e).
Failed(d, e) == [d EXCEPT !.result = "Err", !.err = e, !.functions = <<>>]

\* The closure returned Ok(f).
Collected(d, f) == [d EXCEPT !.functions = Append(@, f)]

\* A variant that never finds a clash.
NoNameClash(name, function_ids) == FALSE

\* !function_ids.insert(name)
name_clash(name, function_ids) == name \in function_ids

\* Instructions that the type checker can reject.
IllTyped == {Plain("Drop"), Plain("End"), Plain("Else")}

\* check_next_instr returns an error: `?` returns it from every invocation of
\* wimplify_instrs, from wimplify_function_body and from the closure.
CheckFails ==
    /\ status = "running"
    /\ nread < limits.instrs
    /\ \E i \in IllTyped :
        /\ check_next_instr(tc, i).err
        /\ instr' = i
        /\ taken' = Append(taken, <<i, FALSE>>)
        /\ checked' = Append(checked, i)
    /\ nread' = nread + 1
    /\ status' = "err"
    /\ msg' = "type error"
    /\ calls' = <<>>
    /\ body' = <<>>
    /\ driver' = Failed(driver, "type error")
    /\ UNCHANGED <<ctx, limits, tc, ty, label_count, stack_var_count, label_stack,
                   wasm_effects, block_types>>

\* The body of the function taken last is finished: the closure returns its
\* Function, and collect takes the next function of the module, if there is one.
NextFunction ==
    /\ status = "ok"
    /\ driver.result = "running"
    /\ LET d == Collected(driver, WimplFunction(ctx.func_ty, body,
                                                from_idx(driver.next - 1, driver.module)))
           name == from_idx(d.next, d.module) IN
       IF d.next = Len(d.module)
       THEN /\ driver' = [d EXCEPT !.result = "Ok"]
            /\ UNCHANGED <<ctx, tc, nread, instr, ty, label_count, stack_var_count,
                           label_stack, calls, status, msg, body, wasm_effects,
                           block_types, checked, taken>>
       ELSE IF name_clash(name, d.function_ids)
       THEN /\ driver' = Failed([d EXCEPT !.next = @ + 1], "duplication function.name")
            /\ UNCHANGED <<ctx, tc, nread, instr, ty, label_count, stack_var_count,
                           label_stack, calls, status, msg, body, wasm_effects,
                           block_types, checked, taken>>
       ELSE LET f == d.module[d.next + 1].func IN
            /\ driver' = [d EXCEPT !.next = @ + 1, !.function_ids = @ \cup {name}]
            /\ ctx' = f
            /\ tc' = <<TcFrame("func", f.func_ty.results, <<>>, FALSE)>>
            /\ nread' = 0
            /\ instr' = NoInstr
            /\ ty' = [reach |-> TRUE, inputs |-> <<>>, results |-> <<>>]
            /\ label_count' = 1
            /\ stack_var_count' = 0
            /\ label_stack' = <<Frame(0, FALSE, return_var(f.func_ty.results))>>
            /\ calls' = <<Activation("func",
                                     [k \in 1..Len(f.locals) |->
                                         Assign(Local(k - 1), f.locals[k], Const(f.locals[k], 0))],
                                     0, None, <<>>)>>
            /\ status' = "running"
            /\ msg' = ""
            /\ body' = <<>>
            /\ wasm_effects' = <<>>
            /\ block_types' = <<>>
            /\ checked' = <<>>
            /\ taken' = <<>>
    /\ UNCHANGED limits

\* The modules explored: up to MaxFunctions functions, with and without names.
FunctionNames == {None, Some("f"), Some("g")}
ModuleFunctionSet == {ModuleFunction(n, f) : n \in FunctionNames, f \in Functions}
Modules == UNION {[1..n -> ModuleFunctionSet] : n \in 1..MaxFunctions}

InitModule == Begin(Limits(MaxInstrsModule, MaxDepthModule, MaxStackModule), Modules)
NextModule == DoBlock \/ DoEnd \/ DoConst \/ DoDrop \/ CheckFails \/ NextFunction
SpecModule == InitModule /\ [][NextModule]_vars

\* Straight-line bodies: expressions, variables, memory, calls, drop and select.
InitExpr == Start(Limits(MaxInstrsExpr, 1, MaxStackExpr), Functions)
NextExpr ==
    \/ DoEnd \/ DoCall \/ DoCallIndirect \/ DoDrop \/ DoSelect
    \/ DoLocalGet \/ DoLocalSet \/ DoLocalTee \/ DoGlobalGet \/ DoGlobalSet
    \/ DoLoad \/ DoStore \/ DoMemorySize \/ DoMemoryGrow
    \/ DoConst \/ DoUnary \/ DoBinary
SpecExpr == InitExpr /\ [][NextExpr]_vars

\* Structured control: blocks, loops, ifs and branches, with unreachable tails.
InitCtl == Start(Limits(MaxInstrsCtl, MaxDepthCtl, MaxStackCtl), Functions)
NextCtl ==
    \/ DoBlock \/ DoLoop \/ DoIf \/ DoElse \/ DoEnd
    \/ DoBr \/ DoBrIf \/ DoBrTable \/ DoUnreachable
    \/ DoConst \/ DoGlobalGet \/ DoDrop
    \/ SkipUnreachable \/ UnreachableEnd \/ UnreachableElse
SpecCtl == InitCtl /\ [][NextCtl]_vars

\* Longer bodies over blocks and branches, with blocks inside unreachable tails.
InitDead == Start(Limits(MaxInstrsDead, MaxDepthDead, MaxStackDead), Functions)
NextDead ==
    \/ DoBlock \/ DoEnd \/ DoBr \/ DoConst
    \/ SkipUnreachable \/ UnreachableEnd \/ UnreachableElse
SpecDead == InitDead /\ [][NextDead]_vars

\* Bodies over if, else and end, with ifs inside unreachable tails.
InitIf == Start(Limits(MaxInstrsIf, MaxDepthIf, MaxStackIf), Functions)
NextIf ==
    \/ DoIf \/ DoElse \/ DoEnd \/ DoConst \/ DoUnreachable
    \/ SkipUnreachable \/ UnreachableEnd \/ UnreachableElse
SpecIf == InitIf /\ [][NextIf]_vars

\* Bodies that return from inside blocks and ifs, also after unreachable tails.
InitReturn == Start(Limits(MaxInstrsReturn, MaxDepthReturn, MaxStackReturn), Functions)
NextReturn ==
    \/ DoBlock \/ DoIf \/ DoEnd \/ DoReturn \/ DoConst \/ DoUnreachable
    \/ SkipUnreachable \/ UnreachableEnd
SpecReturn == InitReturn /\ [][NextReturn]_vars

\* The body `i32.const a; i32.const b; i32.add; drop; end` of a function
\* without parameters, locals and result, for all operands up to MaxOperand.
Operands == 0..MaxOperand
ReadOperand ==
    status = "running" /\ nread <= 1
        /\ \E v \in Operands : Step(Instr("Const", "", v, Some(I32), <<>>), TRUE)
ReadAdd == status = "running" /\ nread = 2 /\ Step(Instr("Binary", "I32Add", 0, None, <<>>), TRUE)
ReadDrop == status = "running" /\ nread = 3 /\ Step(Plain("Drop"), TRUE)
ReadEnd == status = "running" /\ nread = 4 /\ Step(Plain("End"), TRUE)

InitDropAdd ==
    Start(Limits(MaxInstrsExpr + 1, 1, MaxStackExpr), {Function(FunctionType(<<>>, <<>>), <<>>)})
NextDropAdd == ReadOperand \/ ReadAdd \/ ReadDrop \/ ReadEnd
SpecDropAdd == InitDropAdd /\ [][NextDropAdd]_vars

\* Blocks and branches together with calls, memory and variable accesses.
InitOrder == Start(Limits(MaxInstrsOrder, MaxDepthOrder, MaxStackOrder), Functions)
NextOrder ==
    \/ DoBlock \/ DoIf \/ DoElse \/ DoEnd
    \/ DoBr \/ DoBrIf \/ DoBrTable \/ UnreachableEnd
    \/ DoCall \/ DoCallIndirect \/ DoDrop \/ DoSelect
    \/ DoLocalTee \/ DoGlobalGet \/ DoGlobalSet
    \/ DoStore \/ DoMemoryGrow \/ DoConst
SpecOrder == InitOrder /\ [][NextOrder]_vars

-----------------------------------------------------------------------------
(* Views of the output: what has been emitted so far, read in the order in *)
(* which the emitted body executes.                                         *)

RECURSIVE IsSubseq(_, _)
IsSubseq(a, b) ==
    IF a = <<>> THEN TRUE
    ELSE IF b = <<>> THEN FALSE
    ELSE IF Head(a) = Head(b) THEN IsSubseq(Tail(a), Tail(b))
    ELSE IsSubseq(a, Tail(b))

\* An event of the emitted body: a read or write of a variable, a side
\* effect, or the entry or exit of a labelled Block or Loop statement.
Event(kind, space, n) == <<kind, space, n>>
VarEvent(kind, v) == Event(kind, v[1], v[2])

RECURSIVE ExprEvents(_)
ExprsEvents(es) == Flatten([k \in 1..Len(es) |-> ExprEvents(es[k])])
ExprEvents(e) ==
    CASE e.tag = "VarRef" -> <<VarEvent("read", e.var)>>
      [] e.tag = "Const" -> <<>>
      [] e.tag = "Unary" -> ExprEvents(e.arg)
      [] e.tag = "Binary" -> ExprEvents(e.left) \o ExprEvents(e.right)
      [] e.tag = "Load" -> ExprEvents(e.addr) \o <<Event("load", "memory", 0)>>
      [] e.tag = "MemorySize" -> <<Event("memory.size", "memory", 0)>>
      [] e.tag = "MemoryGrow" -> ExprEvents(e.pages) \o <<Event("memory.grow", "memory", 0)>>
      [] e.tag = "Call" -> ExprsEvents(e.args) \o <<Event("call", "func", e.func)>>
      [] e.tag = "CallIndirect" ->
            \* as WebAssembly's call_indirect: the arguments, then the table index
            ExprsEvents(e.args) \o ExprEvents(e.table_idx)
                \o <<Event("call_indirect", "type", Len(e.ftype.inputs))>>

RECURSIVE StmtEvents(_)
BodyEvents(b) == Flatten([k \in 1..Len(b) |-> StmtEvents(b[k])])
StmtEvents(s) ==
    CASE s.tag = "Assign" -> ExprEvents(s.rhs) \o <<VarEvent("write", s.lhs)>>
      [] s.tag = "Store" ->
            ExprEvents(s.addr) \o ExprEvents(s.value) \o <<Event("store", "memory", 0)>>
      [] s.tag = "Expr" -> ExprEvents(s.expr)
      [] s.tag = "Br" -> <<Event("br", "Label", s.target)>>
      [] s.tag = "Unreachable" -> <<Event("unreachable", "Label", 0)>>
      [] s.tag = "If" ->
            ExprEvents(s.condition) \o BodyEvents(s.if_body)
                \o (IF s.else_body = None THEN <<>> ELSE BodyEvents(s.else_body[1]))
      [] s.tag = "Switch" ->
            ExprEvents(s.index)
                \o Flatten([k \in 1..Len(s.cases) |-> BodyEvents(s.cases[k])])
                \o BodyEvents(s.default)
      [] s.tag = "Block" ->
            <<Event("enter", "Label", s.end_label)>> \o BodyEvents(s.body)
                \o <<Event("exit", "Label", s.end_label)>>
      [] s.tag = "Loop" ->
            <<Event("enter", "Label", s.begin_label)>> \o BodyEvents(s.body)
                \o <<Event("exit", "Label", s.begin_label)>>
      [] OTHER -> <<>>

\* The events of the invocations from the k-th on: what invocation k emitted,
\* then the construct its callee is lowering (for an if: the condition and
\* the finished then-arm first) and then, if pending is set, the expressions
\* invocation k still holds on its stack, which no statement can use before
\* the callee returns.
RECURSIVE CallsEvents(_, _)
CallsEvents(k, pending) ==
    LET a == calls[k] IN
    BodyEvents(a.stmts_result)
        \o (IF k = Len(calls) THEN <<>>
            ELSE LET callee == calls[k + 1] IN
                 <<Event("enter", "Label", callee.label)>>
                     \o (IF callee.condition = None THEN <<>>
                         ELSE ExprEvents(callee.condition[1]))
                     \o BodyEvents(callee.if_body)
                     \o CallsEvents(k + 1, pending)
                     \o <<Event("exit", "Label", callee.label)>>)
        \o (IF pending
            THEN ExprsEvents([j \in 1..Len(a.expr_stack) |-> a.expr_stack[j].expr])
            ELSE <<>>)

\* The events of the statements emitted so far, and those together with the
\* expressions that wait on the expression stacks.
EmittedEvents == IF status = "ok" THEN BodyEvents(body) ELSE CallsEvents(1, FALSE)
OutputEvents == IF status = "ok" THEN BodyEvents(body) ELSE CallsEvents(1, TRUE)

Filter(events, Keep(_)) ==
    Flatten([k \in 1..Len(events) |-> IF Keep(events[k]) THEN <<events[k]>> ELSE <<>>])

\* The events that are effects of the program: all but the accesses to the
\* variables the lowerer introduces, branches and block boundaries.
IsEffect(event) == event[2] \notin {"Stack", "BlockResult", "Return", "Label"}
OutputEffects == Filter(OutputEvents, IsEffect)

IsWrite(event) == event[1] # "read"

\* The effects of the input: the zero-initialisation of the declared locals,
\* then those of the reachable instructions read so far.
InputEffects == BodyEvents(default_locals) \o wasm_effects

-----------------------------------------------------------------------------
(* Properties.                                                              *)

OutputBodies ==
    IF status = "ok" THEN <<body>>
    ELSE Flatten([k \in 1..Len(calls) |-> <<calls[k].if_body, calls[k].stmts_result>>])

Temporaries(events) ==
    {events[k][3] : k \in {j \in 1..Len(events) : events[j][2] = "Stack"}}

\* The positions of an event among events, and their number.
Positions(events, event) == {k \in 1..Len(events) : events[k] = event}
Occurrences(events, event) == Cardinality(Positions(events, event))

\* Is s the If statement select emits for the result temporary v: one Assign
\* to v in each arm?
IsSelectOf(s, v) ==
    /\ s.tag = "If"
    /\ Len(s.if_body) = 1 /\ s.if_body[1].tag = "Assign" /\ s.if_body[1].lhs = v
    /\ s.else_body # None
    /\ Len(s.else_body[1]) = 1 /\ s.else_body[1][1].tag = "Assign"
    /\ s.else_body[1][1].lhs = v

RECURSIVE SelectsOf(_, _)
SelectsIn(b, v) == Flatten([k \in 1..Len(b) |-> SelectsOf(b[k], v)])
SelectsOf(s, v) ==
    CASE s.tag = "If" ->
            IF IsSelectOf(s, v) THEN <<s>>
            ELSE SelectsIn(s.if_body, v)
                     \o (IF s.else_body = None THEN <<>> ELSE SelectsIn(s.else_body[1], v))
      [] s.tag = "Switch" ->
            Flatten([k \in 1..Len(s.cases) |-> SelectsIn(s.cases[k], v)])
                \o SelectsIn(s.default, v)
      [] s.tag \in {"Block", "Loop"} -> SelectsIn(s.body, v)
      [] OTHER -> <<>>

Selects(v) == Len(Flatten([k \in 1..Len(OutputBodies) |-> SelectsIn(OutputBodies[k], v)]))

\* C2 as stated: every temporary Stack(n) of the output is the lhs of exactly
\* one Assign statement, the result temporary of a select included.
ExactlyOneAssignPerTemporary ==
    LET events == OutputEvents IN
    \A n \in Temporaries(events) : Occurrences(events, VarEvent("write", Stack(n))) = 1

\* C2, amended: every temporary Stack(n) of the output is the lhs of exactly
\* one Assign statement, unless it is the result temporary of a select: then
\* of exactly two, the single statements of the two arms of one If.
OneAssignPerTemporaryOrSelectArm ==
    LET events == OutputEvents IN
    \A n \in Temporaries(events) :
        /\ Selects(Stack(n)) <= 1
        /\ Occurrences(events, VarEvent("write", Stack(n))) = 1 + Selects(Stack(n))

\* A finished body with a materialized temporary and the result temporary of
\* a select.
OneAssignPerTemporaryWitness ==
    /\ status = "ok"
    /\ \E m, n \in Temporaries(OutputEvents) :
        Selects(Stack(m)) = 0 /\ Selects(Stack(n)) = 1

\* C3: definition before use of temporaries.  Every VarRef(Stack(n)) inside
\* an emitted statement or on an expression stack comes after a statement
\* that assigns Stack(n).
DefinitionBeforeUse ==
    LET events == OutputEvents IN
    \A k \in 1..Len(events) :
        (events[k][1] = "read" /\ events[k][2] = "Stack") =>
            \E j \in 1..(k - 1) : events[j] = Event("write", "Stack", events[k][3])

\* A temporary is referenced from the expression stack and a temporary is
\* read by a statement already emitted.
DefinitionBeforeUseWitness ==
    /\ status = "running"
    /\ \E k \in 1..Len(Last(calls).expr_stack) : IsStackRef(Last(calls).expr_stack[k].expr)
    /\ \E n \in 0..(stack_var_count - 1) :
        Positions(BodyEvents(Last(calls).stmts_result), Event("read", "Stack", n)) # {}

\* The statements of the arms of an If or the cases of a Switch.
Arms(s) ==
    CASE s.tag = "If" -> s.if_body \o (IF s.else_body = None THEN <<>> ELSE s.else_body[1])
      [] s.tag = "Switch" -> Flatten(s.cases) \o s.default
      [] OTHER -> <<>>

IsTemporaryOrConst(e) ==
    \/ (e.tag = "VarRef" /\ e.var[1] = "Stack")
    \/ e.tag = "Const"

\* The last instruction was a reachable br_if, br_table or select.
Duplicated ==
    status = "running" /\ ty.reach /\ instr[1] \in {"BrIf", "BrTable", "Select"}

\* C4: no duplication of non-trivial expressions.  When br_if or br_table
\* has cloned the top slot into its branch Assigns, or select has popped its
\* two values into the arms of its If, every slot of the expression stack is
\* a VarRef(Stack(_)) or a Const, and so is every value assigned in the arms
\* of the statement just emitted.
NoDuplicationOfNonTrivialExprs ==
    Duplicated =>
        /\ \A k \in 1..Len(Last(calls).expr_stack) :
            IsTemporaryOrConst(Last(calls).expr_stack[k].expr)
        /\ \A k \in 1..Len(Arms(Last(Last(calls).stmts_result))) :
            Arms(Last(Last(calls).stmts_result))[k].tag = "Assign" =>
                IsTemporaryOrConst(Arms(Last(Last(calls).stmts_result))[k].rhs)

\* A br_if has cloned a slot that materialization had just replaced by a
\* temporary: the temporary is on the stack and in the branch Assign.
NoDuplicationWitness ==
    /\ Duplicated /\ instr[1] = "BrIf"
    /\ Last(calls).expr_stack # <<>>
    /\ IsStackRef(Last(Last(calls).expr_stack).expr)
    /\ Last(Last(calls).expr_stack).expr.var = Stack(stack_var_count - 1)
    /\ \E k \in 1..Len(Arms(Last(Last(calls).stmts_result))) :
        /\ Arms(Last(Last(calls).stmts_result))[k].tag = "Assign"
        /\ Arms(Last(Last(calls).stmts_result))[k].rhs = Last(Last(calls).expr_stack).expr

\* The expression stacks of the invocations, outermost first.
ExprStacks(cs) == [k \in 1..Len(cs) |-> cs[k].expr_stack]

\* C5: an instruction the type checker classifies as Unreachable appends
\* nothing to what has been emitted, pushes and pops nothing on the expression
\* stacks of the invocations that go on and leaves both counters unchanged.
\* An end pops exactly one label frame and ends the current invocation, an
\* else pops none and starts the else-arm on an empty stack, and any other
\* instruction changes nothing at all.
UnreachableEmitsNothing ==
    [][~ty'.reach =>
        /\ EmittedEvents' = EmittedEvents
        /\ label_count' = label_count
        /\ stack_var_count' = stack_var_count
        /\ label_stack' = IF instr'[1] = "End" THEN Front(label_stack) ELSE label_stack
        /\ instr'[1] \notin {"End", "Else"} => calls' = calls /\ body' = body
        /\ (instr'[1] = "End" /\ status' # "panic") =>
                ExprStacks(calls') = ExprStacks(Front(calls))
        /\ (instr'[1] = "Else" /\ status' # "panic") =>
                ExprStacks(calls') = Append(ExprStacks(Front(calls)), <<>>)
    ]_vars

\* An unreachable end has closed a block into which statements had been
\* emitted, and the label stack still holds the frames around it.
UnreachableEmitsNothingWitness ==
    /\ status = "running" /\ ~ty.reach /\ instr[1] = "End"
    /\ Len(label_stack) >= 2
    /\ Last(calls).stmts_result # <<>>
    /\ Last(Last(calls).stmts_result).tag = "Block"
    /\ Last(Last(calls).stmts_result).body # <<>>

\* C6: when a Reachable end or else is lowered, the result value is there to
\* pop if the top frame has a result variable, and the expression stack is
\* empty after it: neither the expect on the pop nor the assertion "should
\* not contain superfluous expressions" fails.
ResultAvailableAtEnd ==
    status = "panic" =>
        msg \notin {"end expects if/block/loop result value on the stack",
                    "else expects if result value on the stack",
                    "should not contain superfluous expressions"}

\* C7: in a finished body, for every label L created for a block, loop or
\* if, at least one Assign has the lhs BlockResult(L) if and only if the
\* construct labelled L has a non-empty result type.
BlockResultAssignedIffTyped ==
    status = "ok" =>
        \A L \in 1..Len(block_types) :
            Occurrences(OutputEvents, VarEvent("write", BlockResult(L))) >= 1
                <=> block_types[L] # None

\* The number of Block and Loop statements entered minus those left between
\* positions j (exclusive) and m (inclusive) of events.
Nesting(events, j, m) ==
    Cardinality({n \in (j + 1)..m : events[n][1] = "enter"})
        - Cardinality({n \in (j + 1)..m : events[n][1] = "exit"})

\* C8: for every label L, VarRef(BlockResult(L)) is read at most once, and
\* only after the Block or Loop statement labelled L, by a statement of the
\* body that holds that statement (or from the expression stack of its
\* invocation), never from inside it.
BlockResultReadOnceAfterBlock ==
    LET events == OutputEvents IN
    \A L \in 1..Len(block_types) :
        /\ Occurrences(events, Event("read", "BlockResult", L)) <= 1
        /\ \A k \in Positions(events, Event("read", "BlockResult", L)) :
            \E j \in Positions(events, Event("exit", "Label", L)) :
                j < k /\ \A m \in (j + 1)..k : Nesting(events, j, m) >= 0

\* A finished body in which a statement after the block reads the result of
\* a block that assigns it.
BlockResultReadWitness ==
    /\ status = "ok"
    /\ \E L \in 1..Len(block_types) :
        /\ Positions(OutputEvents, Event("write", "BlockResult", L)) # {}
        /\ Positions(OutputEvents, Event("read", "BlockResult", L)) # {}

\* The frame a branch of depth d resolves to, and whether it carries a value.
Target(d) == label_stack[Len(label_stack) - d]
Carries(frame) == ~frame.is_loop /\ frame.result_var # None

\* The statements of a branch of depth d: the Br to the label of its target,
\* with an Assign to the target's result variable right before it if and only
\* if the target carries a value.
IsBranch(arm, d) ==
    /\ arm # <<>> /\ Last(arm) = Br(Target(d).label)
    /\ IF Carries(Target(d))
       THEN Len(arm) = 2 /\ arm[1].tag = "Assign" /\ arm[1].lhs = Target(d).result_var[1]
       ELSE Len(arm) = 1

IsMaterialization(stmts) ==
    \A k \in 1..Len(stmts) : stmts[k].tag = "Assign" /\ stmts[k].lhs[1] = "Stack"

\* Is added, the statements pushed by instruction i, what a branch pushes
\* after materialization, and went the stack from size n to size m for it?
PushesBranch(i, added, n, m) ==
    LET carried == IF Carries(Target(i[3])) THEN 1 ELSE 0 IN
    CASE i[1] = "Br" ->
            /\ Len(added) > carried /\ m = n - carried
            /\ IsMaterialization(Take(added, Len(added) - 1 - carried))
            /\ IsBranch(Drop(added, Len(added) - 1 - carried), i[3])
      [] i[1] = "BrIf" ->
            /\ added # <<>> /\ m = n - 1
            /\ IsMaterialization(Front(added))
            /\ Last(added).tag = "If" /\ Last(added).else_body = None
            /\ IsBranch(Last(added).if_body, i[3])
      [] i[1] = "BrTable" ->
            /\ added # <<>> /\ m = n - 1
            /\ IsMaterialization(Front(added))
            /\ Last(added).tag = "Switch" /\ Len(Last(added).cases) = Len(i[5])
            /\ \A k \in 1..Len(i[5]) : IsBranch(Last(added).cases[k], i[5][k])
            /\ IsBranch(Last(added).default, i[3])

\* C9: branch-carried values.  A br, a br_if and each case of a br_table of
\* depth d targets the d-th frame from the top of the label stack.  An Assign
\* to the result variable of the target comes right before the Br if and only
\* if the target is a non-loop frame with a result variable (and only br pops
\* the value); for a loop target only the Br is emitted and nothing is popped
\* for it.
BranchCarriesValue ==
    [][(ty'.reach /\ status' = "running" /\ instr'[1] \in {"Br", "BrIf", "BrTable"}) =>
        /\ label_stack' = label_stack
        /\ Len(calls') = Len(calls)
        /\ PushesBranch(instr',
                        Drop(Last(calls').stmts_result, Len(Last(calls).stmts_result)),
                        Len(Last(calls).expr_stack), Len(Last(calls').expr_stack))
    ]_vars

\* A br has carried a value to an enclosing block with a result, past a loop
\* with a result type.
BranchCarriesValueWitness ==
    /\ status = "running" /\ ty.reach /\ instr[1] = "Br" /\ instr[3] = 1
    /\ Len(label_stack) >= 3
    /\ Last(label_stack).is_loop /\ Last(label_stack).result_var # None
    /\ Carries(Target(1))
    /\ IsBranch(Drop(Last(calls).stmts_result, Len(Last(calls).stmts_result) - 2), 1)

\* C10 as stated: the body `i32.const a; i32.const b; i32.add; drop; end` of
\* a function without locals is lowered to the empty Body.
DropOfPureExprEmitsNothing == status = "ok" => body = <<>>

\* C10, amended: drop emits the add as an expression statement.  Each
\* constant is pushed as Const, i32.add folds the two slots into one Binary,
\* drop pushes that expression as the statement Expr, and end returns the
\* Body that consists of this one statement.
DropOfBinaryEmitsExpr ==
    [][/\ instr'[1] = "Const" =>
            /\ Last(calls').expr_stack =
                   Append(Last(calls).expr_stack, Slot(Const(I32, instr'[3]), I32))
            /\ Last(calls').stmts_result = <<>>
       /\ instr'[1] = "Binary" =>
            /\ Last(calls').expr_stack =
                   <<Slot(Binary("I32Add", Last(calls).expr_stack[1].expr,
                                 Last(calls).expr_stack[2].expr), I32)>>
            /\ Last(calls').stmts_result = <<>>
       /\ instr'[1] = "Drop" =>
            /\ Last(calls').expr_stack = <<>>
            /\ Last(calls').stmts_result = <<ExprStmt(Last(calls).expr_stack[1].expr)>>
       /\ instr'[1] = "End" =>
            /\ status' = "ok"
            /\ body' = Last(calls).stmts_result
            /\ Len(body') = 1 /\ body'[1].tag = "Expr" /\ body'[1].expr.tag = "Binary"
            /\ body'[1].expr.left.tag = "Const" /\ body'[1].expr.right.tag = "Const"
    ]_vars

\* The finished body is the expression statement of an add of two different
\* constants.
DropOfBinaryWitness ==
    /\ status = "ok" /\ Len(body) = 1
    /\ body[1] = ExprStmt(Binary("I32Add", Const(I32, 1), Const(I32, MaxOperand)))

\* The slots of an expression stack that materialization replaces.
ToMaterialize(es) == {k \in 1..Len(es) : ~(IsStackRef(es[k].expr) \/ IsConst(es[k].expr))}

\* Did drop, on the expression stack es with the temporary counter count, push
\* the statements added and leave the stack es2 and the counter count2?
DropsTop(es, count, added, es2, count2) ==
    LET expr == Last(es).expr IN
    /\ Len(es2) = Len(es) - 1
    /\ IF expr.tag \in {"VarRef", "Const"}
       THEN added = <<>> /\ es2 = Front(es) /\ count2 = count
       ELSE /\ added # <<>> /\ Last(added) = ExprStmt(expr)
            /\ IsMaterialization(Front(added))
            /\ Len(added) - 1 = Cardinality(ToMaterialize(Front(es)))
            /\ count2 = count + Cardinality(ToMaterialize(Front(es)))
            /\ ToMaterialize(es2) = {}
            /\ \A k \in 1..Len(es2) :
                   k \notin ToMaterialize(Front(es)) => es2[k] = es[k]

\* C11: drop pops exactly one slot.  For a popped VarRef (of any variable
\* family) or Const nothing is emitted, the remaining slots stay as they are
\* and the temporary counter is unchanged; for every other popped expression
\* the remaining slots are materialized first and then exactly one Expr
\* statement with the popped expression is emitted, and no temporary is
\* allocated for the popped expression.
DropPopsOneSlot ==
    [][(ty'.reach /\ instr'[1] = "Drop") =>
        /\ status' = "running"
        /\ label_stack' = label_stack
        /\ Len(calls') = Len(calls)
        /\ Take(Last(calls').stmts_result, Len(Last(calls).stmts_result))
               = Last(calls).stmts_result
        /\ DropsTop(Last(calls).expr_stack, stack_var_count,
                    Drop(Last(calls').stmts_result, Len(Last(calls).stmts_result)),
                    Last(calls').expr_stack, stack_var_count')
    ]_vars

\* drop has discarded the result of a call: the global read below it was
\* materialized into the first temporary, then the call was emitted.
DropPopsOneSlotWitness ==
    /\ status = "running" /\ ty.reach /\ instr[1] = "Drop"
    /\ stack_var_count = 1
    /\ Last(calls).expr_stack = <<Slot(VarRef(Stack(0)), I32)>>
    /\ Len(Last(calls).stmts_result) >= 2
    /\ Last(Last(calls).stmts_result).tag = "Expr"
    /\ Last(Last(calls).stmts_result).expr.tag = "Call"
    /\ Last(Front(Last(calls).stmts_result)) = Assign(Stack(0), I32, VarRef(Global(0)))

\* Did br_if of depth d, on the expression stack es, push added and leave es2?
BrIfOf(d, es, added, es2) ==
    /\ Len(es2) = Len(es) - 1
    /\ added # <<>> /\ Last(added).tag = "If"
    /\ Last(added).condition = Last(es).expr
    /\ Last(added).else_body = None
    /\ LET if_body == Last(added).if_body IN
       /\ if_body # <<>> /\ Last(if_body) = Br(Target(d).label)
       /\ Carries(Target(d)) =>
            /\ es2 # <<>> /\ Len(if_body) = 2
            /\ if_body[1] = Assign(Target(d).result_var[1], Last(es2).type_, Last(es2).expr)

\* C12: br_if removes only the condition from the expression stack.  The
\* stack afterwards has as many slots as before the condition was pushed, the
\* emitted statement is If{condition, if_body, no else_body}, if_body ends
\* with the Br to the target, and for a target that carries a value the rhs of
\* the Assign in if_body is the slot that stays on top of the stack.
BrIfRemovesOnlyCondition ==
    [][(ty'.reach /\ instr'[1] = "BrIf" /\ status' = "running") =>
        /\ Len(calls') = Len(calls)
        /\ BrIfOf(instr'[3], Last(calls).expr_stack,
                  Drop(Last(calls').stmts_result, Len(Last(calls).stmts_result)),
                  Last(calls').expr_stack)
    ]_vars

\* A br_if to a target with a result has assigned the materialized value that
\* stays on the stack for the fall-through path.
BrIfRemovesOnlyConditionWitness ==
    /\ status = "running" /\ ty.reach /\ instr[1] = "BrIf"
    /\ Carries(Target(instr[3]))
    /\ Last(calls).expr_stack = <<Slot(VarRef(Stack(0)), I32)>>
    /\ Last(Last(calls).stmts_result).tag = "If"
    /\ Last(Last(calls).stmts_result).if_body[1].rhs = VarRef(Stack(0))

-----------------------------------------------------------------------------
(* The nesting of the instructions taken so far.                           *)

\* From position j of the instructions read (history), at depth d below the
\* construct of interest: the position of the else, and of the end, of that
\* construct, or 0 when it was not read.
RECURSIVE OwnElse(_, _, _)
OwnElse(history, j, d) ==
    IF j > Len(history) THEN 0
    ELSE LET k == history[j][1][1] IN
         IF k \in {"Block", "Loop", "If"} THEN OwnElse(history, j + 1, d + 1)
         ELSE IF k = "End" THEN IF d = 0 THEN 0 ELSE OwnElse(history, j + 1, d - 1)
         ELSE IF k = "Else" /\ d = 0 THEN j
         ELSE OwnElse(history, j + 1, d)

RECURSIVE OwnEnd(_, _, _)
OwnEnd(history, j, d) ==
    IF j > Len(history) THEN 0
    ELSE LET k == history[j][1][1] IN
         IF k \in {"Block", "Loop", "If"} THEN OwnEnd(history, j + 1, d + 1)
         ELSE IF k = "End" THEN IF d = 0 THEN j ELSE OwnEnd(history, j + 1, d - 1)
         ELSE OwnEnd(history, j + 1, d)

\* The positions of the block, loop and if instructions that were lowered, and
\* the label created for the one at position k: labels are handed out from 1
\* in stream order.
Openers(history) ==
    {k \in 1..Len(history) : history[k][1][1] \in {"Block", "Loop", "If"} /\ history[k][2]}
LabelOf(history, k) == Cardinality({j \in Openers(history) : j <= k})

\* The Block statements with end_label L in statement s, nested ones included.
RECURSIVE BlocksOf(_, _)
BlocksIn(b, L) == Flatten([k \in 1..Len(b) |-> BlocksOf(b[k], L)])
BlocksOf(s, L) ==
    CASE s.tag = "If" ->
            BlocksIn(s.if_body, L)
                \o (IF s.else_body = None THEN <<>> ELSE BlocksIn(s.else_body[1], L))
      [] s.tag = "Switch" ->
            Flatten([k \in 1..Len(s.cases) |-> BlocksIn(s.cases[k], L)])
                \o BlocksIn(s.default, L)
      [] s.tag = "Block" ->
            (IF s.end_label = L THEN <<s>> ELSE <<>>) \o BlocksIn(s.body, L)
      [] s.tag = "Loop" -> BlocksIn(s.body, L)
      [] OTHER -> <<>>

EndsWithAssignTo(arm, v) == arm # <<>> /\ Last(arm).tag = "Assign" /\ Last(arm).lhs = v

\* Is b the Block statement of the if read at position k of history?
IsBlockOfIf(b, history, k) ==
    LET L == LabelOf(history, k)
        else == OwnElse(history, k + 1, 0)
        end == OwnEnd(history, k + 1, 0) IN
    /\ Len(b.body) = 1 /\ b.body[1].tag = "If"
    /\ b.body[1].else_body # None <=> else # 0
    /\ history[k][1][4] # None =>
         /\ (else # 0 /\ history[else][2]) => EndsWithAssignTo(b.body[1].if_body, BlockResult(L))
         /\ (else # 0 /\ end # 0 /\ history[end][2] /\ b.body[1].else_body # None) =>
                EndsWithAssignTo(b.body[1].else_body[1], BlockResult(L))

\* C13: every reachable if produces exactly one Block with the freshly
\* created label, whose body is a single If on the condition popped for the
\* if; else_body is present if and only if the then-arm was terminated by the
\* else of this if; with a result type an arm that ends reachably ends with an
\* Assign to BlockResult of the label; both arms use the same label frame.
IfProducesOneBlock ==
    [][/\ (ty'.reach /\ instr'[1] = "If") =>
            /\ status' = "running"
            /\ label_stack' = Append(label_stack, Last(label_stack'))
            /\ Last(label_stack').label = label_count /\ label_count' = label_count + 1
            /\ Last(calls').label = label_count
            /\ Last(calls').condition = Some(Last(Last(calls).expr_stack).expr)
       /\ (instr'[1] = "Else" /\ status' = "running") =>
            /\ label_stack' = label_stack
            /\ Last(calls').label = Last(label_stack).label
       /\ (status' = "running" /\ Len(calls') < Len(calls)
             /\ Last(calls).kind \in {"if", "else"}) =>
            LET stmts == Last(calls').stmts_result IN
            /\ Front(stmts) = calls[Len(calls')].stmts_result
            /\ Last(stmts).tag = "Block" /\ Last(stmts).end_label = Last(calls).label
            /\ Len(Last(stmts).body) = 1 /\ Last(stmts).body[1].tag = "If"
            /\ Last(stmts).body[1].condition = Last(calls).condition[1]
       /\ status' = "ok" =>
            \A k \in Openers(taken') :
                taken'[k][1][1] = "If" =>
                    LET blocks == BlocksIn(body', LabelOf(taken', k)) IN
                    /\ Len(blocks) = 1
                    /\ IsBlockOfIf(blocks[1], taken', k)
    ]_vars

\* C14: the depth of the label stack is the nesting depth of the constructs
\* being lowered.  Whenever an instruction is read, label_stack is as long as
\* the chain of active invocations of wimplify_instrs (the function body and
\* one per block, loop or if arm being lowered); a block, loop or if that is
\* lowered pushes exactly one frame, every end, Reachable or Unreachable, pops
\* exactly one, and else leaves the depth unchanged.
LabelStackDepthIsNesting ==
    [][/\ status = "running" => Len(label_stack) = Len(calls)
       /\ status' = "running" => Len(label_stack') = Len(calls')
       /\ (ty'.reach /\ instr'[1] \in {"Block", "Loop", "If"} /\ status' = "running") =>
            /\ Front(label_stack') = label_stack
            /\ Len(calls') = Len(calls) + 1
       /\ (instr'[1] = "End" /\ status' # "panic") =>
            /\ label_stack' = Front(label_stack)
            /\ Len(calls') = Len(calls) - 1
       /\ (instr'[1] = "Else" /\ status' = "running") =>
            /\ label_stack' = label_stack
            /\ Len(calls') = Len(calls)
    ]_vars

\* An Unreachable end has closed the inner of two nested blocks: the frames
\* of the function body and of the outer block remain.
LabelStackDepthWitness ==
    /\ status = "running" /\ ~ty.reach /\ instr[1] = "End"
    /\ Len(label_stack) = 2 /\ Len(calls) = 2
    /\ Last(calls).kind = "block"
    /\ Last(Last(calls).stmts_result).tag = "Block"

\* The messages of the expect and the two assertions of return on the bottom
\* frame of the label stack.
ReturnFrameMessages ==
    {"empty label stack, but expected function",
     "first element on the label stack should point to function body label",
     "function body block should not have loop flag set"}

Instrs(history) == [k \in 1..Len(history) |-> history[k][1]]

\* C16: lockstep with the type checker.  The k-th call of check_next_instr
\* receives the k-th instruction taken from the cursor; every instruction
\* taken, the Unreachable ones and those of nested blocks included, is passed
\* once, in stream order, in the iteration that lowers or skips it, and the
\* cursor never hands out an instruction again.
LockstepWithTypeChecker ==
    [][/\ checked = Instrs(taken) /\ Len(taken) = nread
       /\ checked' = Instrs(taken') /\ Len(taken') = nread'
       /\ taken' = Append(taken, <<instr', ty'.reach>>)
       /\ checked' = Append(checked, instr')
    ]_vars

\* The type checker has received, in order, a block, a br, a skipped nop and
\* the Unreachable end of the block.
LockstepWitness ==
    /\ Len(checked) = 4 /\ Len(calls) = 1 /\ status = "running"
    /\ checked[1][1] = "Block" /\ checked[2][1] = "Br"
    /\ checked[3][1] = "Nop" /\ ~taken[3][2]
    /\ checked[4][1] = "End" /\ ~taken[4][2]

-----------------------------------------------------------------------------
(* The module driver.                                                      *)

\* C17: when the type checker returns an error for an instruction, at any
\* nesting depth, every enclosing invocation of wimplify_instrs returns, the
\* function body yields no Body, and wimplify returns Err with the checker's
\* message and no functions; after that no instruction is read and no further
\* function is taken.
TypeErrorIsForwarded ==
    [][/\ (status = "running" /\ status' = "err") =>
            /\ calls' = <<>> /\ body' = <<>>
            /\ nread' = nread + 1 /\ checked' = Append(checked, instr')
            /\ driver'.result = "Err" /\ driver'.err = msg'
            /\ driver'.functions = <<>>
       /\ (status = "err" \/ driver.result = "Err") => FALSE
    ]_vars

\* The type checker has rejected the second instruction of the second
\* function, inside a block, after the first function was lowered.
TypeErrorIsForwardedWitness ==
    /\ status = "err" /\ driver.result = "Err" /\ driver.err = "type error"
    /\ driver.next = 2 /\ driver.functions = <<>>
    /\ Len(taken) = 2 /\ taken[1][1][1] = "Block"
    /\ Len(label_stack) = 2

\* The FunctionIds of the first n functions of the input module.
Names(n) == [k \in 1..n |-> from_idx(k - 1, driver.module)]

\* C18: wimplify rejects name clashes.  When a function has the FunctionId
\* of a function before it, wimplify returns Err and the body of that
\* function is not lowered; whenever wimplify returns Ok, the output has one
\* function per input function, in input order, with pairwise distinct names.
NameClashRejected ==
    [][/\ (/\ status = "ok" /\ driver.result = "running"
           /\ driver.next < Len(driver.module)
           /\ \E k \in 1..driver.next :
                  Names(driver.next)[k] = from_idx(driver.next, driver.module)) =>
            /\ driver'.result = "Err" /\ driver'.functions = <<>>
            /\ driver'.err = "duplication function.name"
            /\ <<ctx, nread, taken, checked, calls, status, body>>'
                   = <<ctx, nread, taken, checked, calls, status, body>>
       /\ driver.result = "Err" => FALSE
       /\ driver'.result = "Ok" =>
            LET out == driver'.functions
                n == Len(driver'.module) IN
            /\ Len(out) = n
            /\ \A k \in 1..n : out[k].name = from_idx(k - 1, driver'.module)
            /\ \A j, k \in 1..n : out[j].name = out[k].name => j = k
    ]_vars

\* The second function has the name of the first: wimplify has returned Err
\* without reading an instruction of the second function.
NameClashRejectedWitness ==
    /\ driver.result = "Err" /\ driver.err = "duplication function.name"
    /\ driver.next = 2 /\ Len(driver.module) = 2
    /\ driver.module[1].name = Some("f") /\ driver.module[2].name = Some("f")
    /\ status = "ok" /\ ctx = driver.module[1].func

\* The i32 that has the bits of the u32 offset u.
AsI32(u) == IF u[1] < Half \div 2 THEN u[1] * Half + u[2] ELSE (u[1] - Half) * Half + u[2]

\* The address of a load or store of address addr with the memarg's offset.
OffsetAddress(addr, offset) ==
    IF offset = Zero32 THEN addr ELSE Binary("I32Add", addr, Const(I32, AsI32(offset)))

\* C19: for every memarg offset in the u32 range lowering load and store
\* succeeds.  A non-zero offset makes the address Binary(I32Add, addr,
\* Const(I32(offset))), an offset of zero leaves the address expression as it
\* is, and no offset, in particular none from 2^31 on, aborts the lowering.
EveryOffsetIsLowered ==
    [][(ty'.reach /\ instr'[1] \in {"Load", "Store"}) =>
        LET es == Last(calls).expr_stack IN
        /\ status' = "running"
        /\ instr'[1] = "Load" =>
             LET pushed == Last(Last(calls').expr_stack).expr IN
             pushed = Load(instr'[2], OffsetAddress(Last(es).expr, instr'[6]))
        /\ instr'[1] = "Store" =>
             LET pushed == Last(Last(calls').stmts_result) IN
             pushed = Store(instr'[2], OffsetAddress(Last(Front(es)).expr, instr'[6]),
                            Last(es).expr)
    ]_vars

\* The position in history of the block, loop or if that was given label L.
OpenerOf(history, L) == CHOOSE k \in Openers(history) : LabelOf(history, k) = L

\* Does the construct opened at position k of history leave, in what was read
\* of it so far, only through one `br 0`: its reachable instructions are
\* straight-line code and that one branch?
LeavesOnlyByBr0(history, k) ==
    LET reachable == {j \in (k + 1)..Len(history) : history[j][2]}
        branches == {j \in reachable : history[j][1][1] = "Br"} IN
    /\ \A j \in reachable :
           history[j][1][1] \notin {"Block", "Loop", "If", "Else", "End", "BrIf", "BrTable",
                                    "Return", "Unreachable"}
    /\ Cardinality(branches) = 1
    /\ \A j \in branches : history[j][1][3] = 0

\* The positions of the Assigns to variable v directly in body b.
AssignsTo(b, v) == {p \in 1..Len(b) : b[p].tag = "Assign" /\ b[p].lhs = v}

\* C20: a block with a result type whose body leaves only through a `br 0`
\* that carries a value has an Unreachable end.  The body of the Block
\* emitted for it has exactly one Assign to BlockResult(L), directly before
\* the Br to L, and the end adds no further Assign to BlockResult(L).
BlockLeftByBrAssignsOnce ==
    [][(/\ ~ty'.reach /\ instr'[1] = "End" /\ status' = "running"
        /\ Last(calls).kind = "block"
        /\ Last(label_stack).result_var # None
        /\ LeavesOnlyByBr0(taken, OpenerOf(taken, Last(label_stack).label))) =>
        LET L == Last(label_stack).label
            emitted == Last(Last(calls').stmts_result) IN
        /\ Len(calls') = Len(calls) - 1
        /\ emitted = Block(Last(calls).stmts_result, L)
        /\ Cardinality(AssignsTo(emitted.body, BlockResult(L))) = 1
        /\ Occurrences(BodyEvents(emitted.body), VarEvent("write", BlockResult(L))) = 1
        /\ Len(emitted.body) >= 2
        /\ AssignsTo(emitted.body, BlockResult(L)) = {Len(emitted.body) - 1}
        /\ Last(emitted.body) = Br(L)
    ]_vars

\* The block `block (result i32) global.get 0; br 0; end` was lowered to a
\* Block whose body assigns the global to BlockResult(1) and branches.
BlockLeftByBrWitness ==
    /\ status = "running" /\ ~ty.reach /\ instr[1] = "End"
    /\ Len(taken) = 4 /\ taken[1][1][1] = "Block" /\ taken[3][1][1] = "Br"
    /\ Last(Last(calls).stmts_result) =
           Block(<<Assign(BlockResult(1), I32, VarRef(Global(0))), Br(1)>>, 1)
    /\ Last(calls).expr_stack = <<Slot(VarRef(BlockResult(1)), I32)>>

-----------------------------------------------------------------------------
(* The structure of the input against the recursion of the lowerer.        *)

\* The messages of the assertions on the was_else flag a recursive lowering
\* returns.
WasElseMessages ==
    {"block should be terminated by end, not else",
     "loop should be terminated by end, not else",
     "else block should be terminated by end not else",
     "function should not end with else"}

\* C21: for every well-typed function body, also with an if/else inside
\* unreachable code, every recursive lowering started for a block, a loop, an
\* else-arm or the function body is terminated by end and returns not-else:
\* none of the assertions on was_else fails.
TerminatedByEndNotElse == status = "panic" => msg \notin WasElseMessages

\* Going down from position j of history, d constructs deep: the position of
\* the block, loop or if that an end after j closes, or 0 for the function body.
RECURSIVE OwnOpener(_, _, _)
OwnOpener(history, j, d) ==
    IF j = 0 THEN 0
    ELSE LET k == history[j][1][1] IN
         IF k = "End" THEN OwnOpener(history, j - 1, d + 1)
         ELSE IF k \in {"Block", "Loop", "If"}
         THEN IF d = 0 THEN j ELSE OwnOpener(history, j - 1, d - 1)
         ELSE OwnOpener(history, j - 1, d)

\* C22: structural matching of end.  Each end read by the lowerer pops the
\* label frame that was pushed for the block, loop or if which this end closes
\* in the structure of the input, also when such constructs occur inside
\* unreachable code; so the lowering of the function body returns only at the
\* final end of the body, with no instruction left unlowered.
EndPopsFrameOfItsConstruct ==
    [][(instr'[1] = "End" /\ status' # "panic" /\ status' # "err") =>
        LET opener == OwnOpener(taken, Len(taken), 0) IN
        /\ label_stack' = Front(label_stack)
        /\ IF opener = 0 THEN Last(label_stack).label = 0
           ELSE /\ taken[opener][2]
                /\ Last(label_stack).label = LabelOf(taken, opener)
        /\ status' = "ok" <=> opener = 0
    ]_vars

\* The labels targeted by the Br statements of a statement list, the ones in
\* the arms of If and Switch statements included.
RECURSIVE BrTargetsOf(_)
BrTargetsIn(b) == UNION {BrTargetsOf(b[k]) : k \in 1..Len(b)}
BrTargetsOf(s) ==
    CASE s.tag = "Br" -> {s.target}
      [] s.tag = "If" ->
            BrTargetsIn(s.if_body)
                \cup (IF s.else_body = None THEN {} ELSE BrTargetsIn(s.else_body[1]))
      [] s.tag = "Switch" ->
            UNION {BrTargetsIn(s.cases[k]) : k \in 1..Len(s.cases)} \cup BrTargetsIn(s.default)
      [] OTHER -> {}

\* The branch depths of instruction i, and the label created for the construct
\* that depth d designates after history: the label of the d-th construct that
\* is open around the end of history, or 0 for the function body.
DepthsOf(i) ==
    CASE i[1] = "BrTable" -> {i[3]} \cup {i[5][k] : k \in 1..Len(i[5])}
      [] i[1] = "Return" -> {}
      [] OTHER -> {i[3]}
Designated(history, d) ==
    LET opener == OwnOpener(history, Len(history), d) IN
    IF opener = 0 THEN 0 ELSE LabelOf(history, opener)

\* C23: branch targets are faithful and well scoped.  Every Br emitted for a
\* reachable br, br_if, br_table or return targets the label created for the
\* construct that the branch depth designates in the nesting of the input
\* (label 0 for the function body and for return), and it is pushed into the
\* body of an invocation that is nested in the Block or Loop statement
\* carrying that label, unless the label is 0.
BranchTargetsDesignatedLabel ==
    [][(/\ ty'.reach /\ status' = "running"
        /\ instr'[1] \in {"Br", "BrIf", "BrTable", "Return"}) =>
        LET added == Drop(Last(calls').stmts_result, Len(Last(calls).stmts_result))
            designated ==
                IF instr'[1] = "Return" THEN {0}
                ELSE {Designated(taken, d) : d \in DepthsOf(instr')} IN
        /\ Len(calls') = Len(calls)
        /\ BrTargetsIn(added) = designated
        /\ \A L \in BrTargetsIn(added) :
               L = 0 \/ \E c \in 1..Len(calls) : calls[c].label = L
    ]_vars

\* Is every slot of es a reference to a Stack temporary or a constant?
AllMaterialized(es) ==
    \A k \in 1..Len(es) : IsStackRef(es[k].expr) \/ IsConst(es[k].expr)

\* The expression stack at the moment instruction i pushed its statement, given
\* the stack es it left behind: local.tee pushes the reference to its local
\* after the Assign, every other instruction pushes its statement last.
StackAtPush(i, es) == IF i[1] = "LocalTee" THEN Front(es) ELSE es

\* C24: materialization before every statement.  Whenever a reachable
\* instruction other than end and else appends a statement that is not an
\* Assign of materialization, every slot of the expression stack of the current
\* invocation is at that moment a reference to a Stack temporary or a constant;
\* and when the Block or Loop statement of a finished block, loop or if is
\* appended, the same holds of the stack below the reference to the
\* BlockResult variable that the construct pushed for itself.
MaterializedBeforeEveryStatement ==
    [][/\ (/\ ty'.reach /\ status' = "running" /\ Len(calls') = Len(calls)
           /\ instr'[1] \notin {"End", "Else", "Block", "Loop", "If"}
           /\ ~IsMaterialization(Drop(Last(calls').stmts_result,
                                      Len(Last(calls).stmts_result)))) =>
            AllMaterialized(StackAtPush(instr', Last(calls').expr_stack))
       /\ (status' = "running" /\ Len(calls') = Len(calls) - 1) =>
            LET es == Last(calls').expr_stack
                stmt == Last(Last(calls').stmts_result)
                L == IF stmt.tag = "Block" THEN stmt.end_label ELSE stmt.begin_label IN
            /\ Len(Last(calls').stmts_result) = Len(calls[Len(calls')].stmts_result) + 1
            /\ stmt.tag \in {"Block", "Loop"}
            /\ \/ AllMaterialized(es)
               \/ /\ es # <<>> /\ Last(es).expr = VarRef(BlockResult(L))
                  /\ AllMaterialized(Front(es))
    ]_vars

\* A local.tee has pushed its Assign after materializing a slot below its
\* value, and a typed block has pushed its Block statement above a temporary.
MaterializedBeforeTeeWitness ==
    /\ status = "running" /\ ty.reach /\ instr[1] = "LocalTee"
    /\ LET es == Last(calls).expr_stack
           stmts == Last(calls).stmts_result IN
       /\ Len(es) >= 2 /\ Len(stmts) >= 2
       /\ IsStackRef(es[Len(es) - 1].expr)
       /\ Last(stmts).tag = "Assign" /\ Last(stmts).lhs[1] \in {"Param", "Local"}
       /\ stmts[Len(stmts) - 1].tag = "Assign"
       /\ stmts[Len(stmts) - 1].lhs = es[Len(es) - 1].expr.var
       /\ stmts[Len(stmts) - 1].rhs.tag = "VarRef"
       /\ stmts[Len(stmts) - 1].rhs.var[1] = "BlockResult"

\* Is m what materialization makes of the expression stack es with the
\* temporary counter count: the same slots with the same types, each slot that
\* is neither a Stack reference nor a constant replaced by a reference to a
\* fresh temporary, one Assign per replaced slot from bottom to top with
\* consecutive indices from count on, and the counter advanced by their number?
KeepsShape(count, es, m) ==
    LET rank(k) == Cardinality({j \in ToMaterialize(es) : j < k}) IN
    /\ Len(m.expr_stack) = Len(es)
    /\ \A k \in 1..Len(es) :
           /\ m.expr_stack[k].type_ = es[k].type_
           /\ IF k \in ToMaterialize(es)
              THEN /\ m.expr_stack[k].expr = VarRef(Stack(count + rank(k)))
                   /\ m.stmts[rank(k) + 1] = Assign(Stack(count + rank(k)), es[k].type_, es[k].expr)
              ELSE m.expr_stack[k] = es[k]
    /\ Len(m.stmts) = Cardinality(ToMaterialize(es))
    /\ m.count = count + Len(m.stmts)

\* C25: materialization is idempotent and shape-preserving.  On every
\* expression stack of the lowerer, and on every prefix of it, materialization
\* keeps the number, order and types of the slots, leaves Stack references and
\* constants untouched, emits exactly one Assign per other slot in
\* bottom-to-top order with consecutively increasing fresh indices, advances
\* stack_var_count by the number of Assigns, and a second materialization
\* right after it emits nothing and changes neither stack nor counter.
MaterializationKeepsShape ==
    \A c \in 1..Len(calls) : \A n \in 0..Len(calls[c].expr_stack) :
        LET es == Take(calls[c].expr_stack, n)
            once == materialize_all_exprs_as_stmts(stack_var_count, es)
            twice == materialize_all_exprs_as_stmts(once.count, once.expr_stack) IN
        /\ KeepsShape(stack_var_count, es, once)
        /\ twice = Done(once.expr_stack, <<>>, once.count)

\* A stack with a constant between two slots of different types that need a
\* temporary.
MaterializationWitness ==
    /\ status = "running"
    /\ LET es == Last(calls).expr_stack IN
       /\ Len(es) = 3 /\ ToMaterialize(es) = {1, 3} /\ IsConst(es[2].expr)
       /\ es[1].type_ # es[3].type_

\* Did a call with n parameters and the result types results, on the slots
\* below (those under its table index, if it has one), make call_expr of the
\* n topmost of them and then push the statements added, leaving the stack es2
\* and moving the temporary counter from count to count2?
CallTakesArgs(below, n, results, call_expr, added, es2, count, count2) ==
    LET rest == Take(below, Len(below) - n) IN
    /\ Len(call_expr.args) = n
    /\ \A k \in 1..n : call_expr.args[k] = below[Len(below) - n + k].expr
    /\ IF results = <<>>
       THEN /\ Len(added) = Cardinality(ToMaterialize(rest)) + 1
            /\ IsMaterialization(Front(added))
            /\ Last(added) = ExprStmt(call_expr)
            /\ Cardinality({k \in 1..Len(added) : added[k].tag = "Expr"}) = 1
            /\ Len(es2) = Len(rest) /\ AllMaterialized(es2)
            /\ count2 = count + Cardinality(ToMaterialize(rest))
       ELSE /\ added = <<>> /\ count2 = count
            /\ es2 = Append(rest, Slot(call_expr, results[1]))

\* C26: call and call_indirect remove exactly as many trailing stack slots as
\* the callee has parameters (call_indirect after popping the table index),
\* in stack order, so that the slot on top becomes the last argument.  Without
\* a result the remaining slots are materialized and exactly one Stmt::Expr
\* of the call is emitted; with one result no statement is emitted, nothing is
\* materialized and the call expression is pushed with the result type.
CallTakesTrailingSlots ==
    [][(ty'.reach /\ status' = "running" /\ instr'[1] \in {"Call", "CallIndirect"}) =>
        LET es == Last(calls).expr_stack
            type_ == function(instr'[3])
            added == Drop(Last(calls').stmts_result, Len(Last(calls).stmts_result))
            below == IF instr'[1] = "Call" THEN es ELSE Front(es)
            pushed == IF type_.results = <<>> THEN Last(added).expr
                      ELSE Last(Last(calls').expr_stack).expr IN
        /\ Len(calls') = Len(calls) /\ label_stack' = label_stack
        /\ Len(below) >= Len(type_.inputs)
        /\ IF instr'[1] = "Call"
           THEN pushed.tag = "Call" /\ pushed.func = instr'[3]
           ELSE /\ pushed.tag = "CallIndirect" /\ pushed.ftype = type_
                /\ pushed.table_idx = Last(es).expr
        /\ CallTakesArgs(below, Len(type_.inputs), type_.results, pushed, added,
                         Last(calls').expr_stack, stack_var_count, stack_var_count')
    ]_vars

\* A call of a function with two parameters and no result has taken two
\* different arguments from above a slot that needed a temporary.
CallTakesTrailingSlotsWitness ==
    /\ status = "running" /\ ty.reach /\ instr[1] = "Call" /\ instr[3] = 0
    /\ LET es == Last(calls).expr_stack
           stmts == Last(calls).stmts_result IN
       /\ Len(es) = 1 /\ IsStackRef(es[1].expr)
       /\ Len(stmts) >= 2 /\ Last(stmts).tag = "Expr"
       /\ Last(stmts).expr.tag = "Call"
       /\ Last(stmts).expr.args[1] # Last(stmts).expr.args[2]
       /\ stmts[Len(stmts) - 1] = Assign(es[1].expr.var, I32, VarRef(Global(0)))

\* What lowering `local.set local_idx; local.get local_idx` makes of the
\* expression stack es and the temporary counter count: the statements of
\* both, and the stack and the counter after the second.
SetThenGet(es, count, local_idx) ==
    LET type_ == LocalTypes[local_idx + 1]
        set == wasm_LocalSet(es, count, FunctionType(<<type_>>, <<>>), local_idx)
        get == wasm_LocalGet(set.expr_stack, set.count, FunctionType(<<>>, <<type_>>),
                             local_idx) IN
    IF set.panic # "" THEN set
    ELSE Done(get.expr_stack, set.stmts \o get.stmts, get.count)

\* C27: local.tee is equivalent to local.set followed by local.get.  From
\* every state with a well-typed value on top of the stack, lowering
\* `local.tee i` pushes the same statements, leaves the same expression stack
\* (with VarRef of Param(i) on top when i is below the number of parameters,
\* else of Local(i - number of parameters), with the type of the local) and
\* the same counters as lowering `local.set i; local.get i`.
TeeIsSetThenGet ==
    [][(ty'.reach /\ instr'[1] = "LocalTee" /\ status' # "err") =>
        LET i == instr'[3]
            num_params == Len(ctx.func_ty.inputs)
            both == SetThenGet(Last(calls).expr_stack, stack_var_count, i) IN
        /\ status' = "running" /\ both.panic = ""
        /\ Len(calls') = Len(calls)
        /\ Last(calls').expr_stack = both.expr_stack
        /\ Last(calls').stmts_result = Last(calls).stmts_result \o both.stmts
        /\ stack_var_count' = both.count
        /\ label_count' = label_count /\ label_stack' = label_stack
        /\ Last(Last(calls').expr_stack) =
               Slot(VarRef(IF i < num_params THEN Param(i) ELSE Local(i - num_params)),
                    LocalTypes[i + 1])
    ]_vars

\* A local.tee of the declared local has assigned its value and left the
\* reference to the local on the stack, above a slot that needed a temporary.
TeeIsSetThenGetWitness ==
    /\ status = "running" /\ ty.reach /\ instr[1] = "LocalTee" /\ instr[3] = 1
    /\ LET es == Last(calls).expr_stack
           stmts == Last(calls).stmts_result IN
       /\ Len(es) = 2 /\ IsStackRef(es[1].expr)
       /\ es[2] = Slot(VarRef(Local(0)), I64)
       /\ Len(stmts) >= 2
       /\ Last(stmts).tag = "Assign" /\ Last(stmts).lhs = Local(0)
       /\ stmts[Len(stmts) - 1].tag = "Assign" /\ stmts[Len(stmts) - 1].lhs = es[1].expr.var

====
